---- MODULE Spec2Model ----
(***************************************************************************)
(* Outrider: the pattern-matching and result-scoring core.                 *)
(*                                                                         *)
(* File text is modelled as a sequence of source fragments (tokens); the   *)
(* text is their concatenation.  Every fragment is a real piece of source  *)
(* text, so lengths, offsets, lines and columns are those of the           *)
(* characters.  Regular expressions are modelled by what they match on     *)
(* these fragments: where a match may start, which characters it covers    *)
(* and whether it runs on over the white space that follows.               *)
(* Confidence values are in hundredths (0.5 is 50).                        *)
(***************************************************************************)
EXTENDS Integers, Sequences, FiniteSets, TLC

VARIABLES
    content,       \* the text handed to an engine's analyze
    customRules,   \* the rules argument of the RuleEngine constructor
    rules,         \* RuleEngine: this.rules
    enabledRules,  \* RuleEngine: this.enabledRules
    analyzed,      \* whether the engine's last call was analyze
    ruleRet        \* what that analyze returned (or that it threw)

ruleVars == <<content, customRules, rules, enabledRules, analyzed, ruleRet>>

VARIABLES
    config,        \* MLAnalyzer: this.config
    model,         \* MLAnalyzer: this.model
    mlAnalyzed,    \* whether the analyzer's last call was analyze
    mlRet          \* what that analyze returned

mlVars == <<config, model, mlAnalyzed, mlRet>>

VARIABLES
    results,       \* the findings a summary is made of
    summary,       \* the summary made of them, and by which generateSummary
    groups         \* the findings grouped by file, and by which
                   \* groupResultsByFile

summaryVars == <<results, summary, groups>>

VARIABLES
    codeFiles,     \* scanCommand: the files found, in the order of the loop
    perFile,       \* what analyzeFile returned for each file analysed so far
    exited         \* scanCommand has left through its catch (process.exit)

scanVars == <<codeFiles, perFile, exited>>

VARIABLES
    offset,        \* getLineAndColumn: the index asked about
    position       \* what both engines' getLineAndColumn returned for it

posVars == <<offset, position>>

VARIABLES
    engine,         \* the engine a caller holds: "rule", "ml", or "none"
    returns         \* what the caller's analyze calls returned, in order

rescanVars == <<engine, returns>>

VARIABLES
    route,          \* where the ml options come from: "file", "caller", "none"
    mlOptions,      \* the ml section of the configuration file, or the
                    \* options a caller hands to new MLAnalyzer
    loaded,         \* what ConfigLoader.load returned
    engineConfig    \* this.config of the MLAnalyzer constructed from them

configVars == <<route, mlOptions, loaded, engineConfig>>

VARIABLES
    dryRun,         \* argv.dryRun of the fix command
    backup,         \* argv.backup of the fix command
    configExists,   \* whether the configuration file exists
    fixStage,       \* where fixCommand stands
    processed,      \* the number of files processFile has been called for
    written         \* the paths fs.writeFileSync was called with, and the
                    \* text written, in order

fixVars == <<dryRun, backup, configExists, fixStage, processed, written>>

VARIABLES
    outputFormat,   \* argv.output of the scan command, or the format an
                    \* OutputFormatter is constructed with
    shown,          \* what displayResults printed
    formatRet       \* what new OutputFormatter(outputFormat).format(results)
                    \* came to

formatVars == <<outputFormat, shown, formatRet>>

\* One scan loop of an engine, an iteration at a time
VARIABLES
    scanOwner,      \* the class whose loop it is: "RuleEngine" or "MLAnalyzer"
    scanPattern,    \* the regular expression object the loop runs
    scanContent,    \* the text it runs over
    iterations,     \* how many times the body of the while loop has run
    scanStage       \* "idle", "loop" (inside the while loop) or "done"

loopVars == <<scanOwner, scanPattern, scanContent, iterations, scanStage>>

\* processFile: the loop over the findings of one file, a finding at a time
VARIABLES
    modified,       \* processFile: modifiedContent
    nFixed,         \* processFile: fixed, the number of fixes applied
    fixIndex        \* how many of fileResults the loop has been through

lineFixVars == <<modified, nFixed, fixIndex>>

\* Two analyze calls on one engine, started before either is awaited
VARIABLES
    sharedPatterns, \* the pattern objects of the engine, in scan order
    callText,       \* the text given to each call
    callStage,      \* where each call is: "new", "reset", "loop",
                    \* "returned" (its promise is settled) or "awaited"
    callAt,         \* the pattern each call is at
    callFound,      \* the matches each call has pushed so far
    running         \* the call whose body is being run, 0 for none

sharedVars == <<sharedPatterns, callText, callStage, callAt, callFound, running>>

\* Two rule engines constructed from one configuration mapping
VARIABLES
    heap,           \* the rule objects: what each one holds now
    engineRules,    \* this.rules of each engine: which object each name has
    engineEnabled,  \* this.enabledRules of each engine
    lastCall        \* the last call made on an engine

aliasVars == <<heap, engineRules, engineEnabled, lastCall>>

\* The construction of an MLAnalyzer and the first call on it
VARIABLES
    mlStage,        \* "new" before the constructor has run, then "constructed"
    modelPending,   \* a part of initializeModel is still to run, after an
                    \* await in it
    sameTick        \* the first analyze call was made right after the
                    \* constructor, before any pending part could run

constructVars == <<mlStage, modelPending, sameTick>>

\* A CodeFixer and the calls made on it
VARIABLES
    fixableRules,   \* CodeFixer: this.fixableRules
    fixers,         \* CodeFixer: this.fixers, its own properties
    fixCall         \* the last applyFix call: its arguments and what it
                    \* returned

fixerVars == <<fixableRules, fixers, fixCall>>

vars == <<ruleVars, mlVars, summaryVars, scanVars, posVars, rescanVars,
          configVars, fixVars, formatVars, loopVars, lineFixVars,
          sharedVars, aliasVars, constructVars, fixerVars>>

-----------------------------------------------------------------------------
(* Text fragments *)

NL    == "\n"
MARK  == "// outrider-disable"
CLOG  == "console.log(x);"
DBG   == "debugger;"
THENS == ".then(f)"
THENL == ".then(handleTheResponseBody)"
SETI  == "setInterval(tick, 1000)"

Tokens == {NL, MARK, CLOG, DBG, THENS, THENL, SETI}

MaxLen == 3

\* the texts of at most MaxLen fragments
TextsOver(toks) == UNION {[1..n -> toks] : n \in 0..MaxLen}

\* the texts analysed by the rule engine, and by the heuristic engine: the
\* fragments left out of each are text that engine finds nothing in
RuleTexts == TextsOver({NL, MARK, CLOG, DBG, THENS})
MLTexts   == TextsOver({NL, MARK, THENS, THENL, SETI})

FilePath == "file.js"

\* \s on a fragment: the only white-space fragment is the newline
IsSpace(tok) == tok = NL

\* String.prototype.includes on a fragment or a matched text, for the
\* substrings the engines look for
StrIncludes(s, sub) ==
    CASE sub = "// outrider-disable" -> s = MARK
      [] sub = "// eslint-disable"   -> FALSE
      [] sub = "setInterval"         -> s = SETI
      [] sub = "addEventListener"    -> FALSE
      [] OTHER                       -> FALSE

\* lineContent.includes(sub) on one line of the text
LineIncludes(lineContent, sub) ==
    \E k \in 1..Len(lineContent) : StrIncludes(lineContent[k], sub)

RECURSIVE Chars(_)
\* content.length: the number of characters of a run of fragments
Chars(toks) == IF toks = <<>> THEN 0 ELSE Len(Head(toks)) + Chars(Tail(toks))

\* the character offset at which fragment i starts (match.index)
Offset(text, i) == Chars(SubSeq(text, 1, i - 1))

RECURSIVE Split(_)
\* content.split('\n'): the lines of the text
Split(toks) ==
    IF toks = <<>> THEN << <<>> >>
    ELSE LET rest == Split(Tail(toks))
         IN  IF Head(toks) = NL
                THEN << <<>> >> \o rest
                ELSE << <<Head(toks)>> \o Head(rest) >> \o Tail(rest)

RECURSIVE Substring0(_, _)
\* content.substring(0, index), index being the offset of a fragment start
Substring0(text, index) ==
    IF text = <<>> \/ index < Len(Head(text)) THEN <<>>
    ELSE <<Head(text)>> \o Substring0(Tail(text), index - Len(Head(text)))

\* getLineAndColumn with the column counted from 0
getLineAndColumnFromZero(text, index) ==
    LET beforeMatch == Substring0(text, index)
        lines       == Split(beforeMatch)
    IN  [line |-> Len(lines), column |-> Chars(lines[Len(lines)])]

\* RuleEngine.getLineAndColumn
getLineAndColumn(text, index) ==
    LET beforeMatch == Substring0(text, index)
        lines       == Split(beforeMatch)
    IN  [line |-> Len(lines), column |-> Chars(lines[Len(lines)]) + 1]

\* MLAnalyzer.getLineAndColumn
MLgetLineAndColumn(text, index) ==
    LET beforeMatch == Substring0(text, index)
        lines       == Split(beforeMatch)
    IN  [line |-> Len(lines), column |-> Chars(lines[Len(lines)]) + 1]

-----------------------------------------------------------------------------
(* Regular expressions, named after the rule or detector that owns them *)

BlankLines == "no-multiple-empty-lines"

\* the characters a pattern matches when its match starts at the first
\* character of fragment tok, before any trailing white space ("" if the
\* pattern cannot match there); no pattern matches from inside a fragment
HeadText(id, tok) ==
    CASE id = "no-console-log" /\ tok = CLOG                   -> "console.log("
      [] id = "no-debugger" /\ tok = DBG                       -> "debugger;"
      [] id = "then-call" /\ tok \in {THENS, THENL}             -> ".then("
      [] id = "promise-chain-missing-catch" /\ tok \in {THENS, THENL} -> tok
      [] id = "setinterval-no-clear" /\ tok = SETI             -> tok
      [] OTHER                                                 -> ""

\* patterns that end in \s* before a look-ahead: the match runs on over the
\* white space that follows
TrailingSpace(id) ==
    id \in {"promise-chain-missing-catch", "event-listener-no-removal",
            "setinterval-no-clear"}

RECURSIVE SpaceRun(_, _)
\* the number of white-space fragments from fragment i on
SpaceRun(text, i) ==
    IF i > Len(text) \/ ~IsSpace(text[i]) THEN 0 ELSE 1 + SpaceRun(text, i + 1)

\* the number of fragments a match of the pattern starting at fragment i
\* spans; 0 when there is no match there
MatchTokens(id, text, i) ==
    IF id = BlankLines
       THEN IF SpaceRun(text, i) >= 3 THEN SpaceRun(text, i) ELSE 0
    ELSE IF HeadText(id, text[i]) = "" THEN 0
    ELSE 1 + (IF TrailingSpace(id) THEN SpaceRun(text, i + 1) ELSE 0)

\* the match object of a match starting at fragment i: match.index,
\* match[0] as head text plus trailing newlines, and match[0].length
MatchAt(id, text, i) ==
    LET n    == MatchTokens(id, text, i)
        head == IF id = BlankLines THEN "" ELSE HeadText(id, text[i])
        trail == IF id = BlankLines THEN n ELSE n - 1
    IN  [index |-> Offset(text, i), head |-> head, trail |-> trail,
         length |-> Len(head) + trail, tok |-> i, ntok |-> n]

RECURSIVE NextMatch(_, _, _)
\* pattern.exec(content) with the cursor at fragment from: the fragment at
\* which the next match starts, 0 for null
NextMatch(id, text, from) ==
    IF from > Len(text) THEN 0
    ELSE IF MatchTokens(id, text, from) > 0 THEN from
    ELSE NextMatch(id, text, from + 1)

-----------------------------------------------------------------------------
(* JavaScript objects: the keys in insertion order, and the value of each.  *)
(* A rule object is a record holding just the properties it was given.     *)

Range(seq) == {seq[k] : k \in 1..Len(seq)}

EmptyObj == [keys |-> <<>>, val |-> <<>>]

\* obj[key] = value: an existing key keeps its place, a new one goes last
SetKey(obj, key, value) ==
    [keys |-> IF key \in Range(obj.keys) THEN obj.keys ELSE Append(obj.keys, key),
     val  |-> [k \in Range(obj.keys) \cup {key} |->
                  IF k = key THEN value ELSE obj.val[k]]]

RECURSIVE SpreadFrom(_, _, _)
SpreadFrom(obj, src, k) ==
    IF k > Len(src.keys) THEN obj
    ELSE SpreadFrom(SetKey(obj, src.keys[k], src.val[src.keys[k]]), src, k + 1)

\* { ...a, ...b }
Spread(a, b) == SpreadFrom(a, b, 1)

\* the object literal { ...defaults, ...given } of one rule: the given
\* properties win
SpreadProps(defaults, given) == given @@ defaults

Has(obj, prop) == prop \in DOMAIN obj

\* obj.prop, the string "undefined" standing for undefined
Get(obj, prop) == IF Has(obj, prop) THEN obj[prop] ELSE "undefined"

\* a regular expression literal with the g flag: a fresh object, its cursor
\* lastIndex (counted in fragments) at the start
Regex(id) == [kind |-> "regex", id |-> id, lastIndex |-> 0]

\* a regular expression object its holder has run before, which left the
\* cursor at fragment cursor
RegexAt(id, cursor) == [kind |-> "regex", id |-> id, lastIndex |-> cursor]

\* a pattern given as a string, as a JSON configuration gives it
StringPattern(src) == [kind |-> "string", id |-> src]

-----------------------------------------------------------------------------
(* RuleEngine *)

DefaultRule(name, enabled, severity, description) ==
    [name |-> name, enabled |-> enabled, severity |-> severity,
     description |-> description, pattern |-> Regex(name)]

\* the defaultRules literal of initializeRules
defaultRules ==
    [keys |-> <<"no-unused-variables", "no-console-log", "no-debugger",
                "no-eval", "no-var", "prefer-const", "no-empty-blocks",
                "no-multiple-empty-lines", "no-trailing-spaces",
                "no-mixed-spaces-and-tabs">>,
     val |->
        ("no-unused-variables" :> DefaultRule("no-unused-variables", FALSE,
            "warning", "Variables that are declared but never used")) @@
        ("no-console-log" :> DefaultRule("no-console-log", TRUE, "warning",
            "Console.log statements should be removed in production")) @@
        ("no-debugger" :> DefaultRule("no-debugger", TRUE, "error",
            "Debugger statements should not be in production code")) @@
        ("no-eval" :> DefaultRule("no-eval", TRUE, "error",
            "Eval can be dangerous and should be avoided")) @@
        ("no-var" :> DefaultRule("no-var", TRUE, "warning",
            "Use const or let instead of var")) @@
        ("prefer-const" :> DefaultRule("prefer-const", TRUE, "warning",
            "Use const for variables that are never reassigned")) @@
        ("no-empty-blocks" :> DefaultRule("no-empty-blocks", TRUE, "warning",
            "Empty blocks should be avoided")) @@
        ("no-multiple-empty-lines" :> DefaultRule("no-multiple-empty-lines",
            TRUE, "warning",
            "Multiple consecutive empty lines should be avoided")) @@
        ("no-trailing-spaces" :> DefaultRule("no-trailing-spaces", TRUE,
            "warning", "Trailing spaces should be removed")) @@
        ("no-mixed-spaces-and-tabs" :> DefaultRule("no-mixed-spaces-and-tabs",
            TRUE, "warning", "Mixed spaces and tabs should be avoided"))]

\* RuleEngine.initializeRules
initializeRules(custom) == Spread(defaultRules, custom)

\* RuleEngine.getEnabledRules
getEnabledRules(rs) ==
    SelectSeq(rs.keys, LAMBDA ruleName : Get(rs.val[ruleName], "enabled") # FALSE)

\* shouldSkipRule without the test for a disable comment
shouldSkipRuleUnmarked(rule, lineContent, lineNumber) ==
    /\ Has(rule, "exclude")
    /\ \E e \in 1..Len(rule.exclude) :
          \E k \in 1..Len(lineContent) :
              MatchTokens(rule.exclude[e].id, lineContent, k) > 0

\* RuleEngine.shouldSkipRule
shouldSkipRule(rule, lineContent, lineNumber) ==
    \/ LineIncludes(lineContent, "// eslint-disable")
    \/ LineIncludes(lineContent, "// outrider-disable")
    \/ /\ Has(rule, "exclude")
       /\ \E e \in 1..Len(rule.exclude) :
             \E k \in 1..Len(lineContent) :
                 MatchTokens(rule.exclude[e].id, lineContent, k) > 0

RECURSIVE ruleLoop(_, _, _, _, _)
\* the while loop of applyRule, with the pattern's cursor at fragment from
ruleLoop(rule, ruleName, text, filePath, from) ==
    LET i == NextMatch(rule.pattern.id, text, from)
    IN  IF i = 0 THEN <<>>
        ELSE LET match == MatchAt(rule.pattern.id, text, i)
                 lines == Split(text)
                 lc    == getLineAndColumn(text, match.index)
                 rest  == ruleLoop(rule, ruleName, text, filePath, i + match.ntok)
             IN  IF shouldSkipRule(rule, lines[lc.line], lc.line)
                    THEN rest
                    ELSE << [type     |-> "rule",
                             severity |-> Get(rule, "severity"),
                             file     |-> filePath,
                             line     |-> lc.line,
                             column   |-> lc.column,
                             message  |-> Get(rule, "description"),
                             rule     |-> ruleName,
                             code     |-> match.head] >> \o rest

\* applyRule without its reset of the cursor
KeepLastIndex(pattern) == pattern

\* rule.pattern.lastIndex = 0
ResetLastIndex(pattern) == [pattern EXCEPT !.lastIndex = 0]

\* RuleEngine.applyRule: the violations, or threw when rule.pattern is no
\* regular expression (rule.pattern.exec is not a function)
applyRule(rule, ruleName, text, filePath) ==
    IF ~Has(rule, "pattern") THEN [threw |-> FALSE, value |-> <<>>]
    ELSE IF rule.pattern.kind # "regex" THEN [threw |-> TRUE, value |-> <<>>]
    ELSE [threw |-> FALSE,
          value |-> ruleLoop(rule, ruleName, text, filePath,
                             ResetLastIndex(rule.pattern).lastIndex + 1)]

RECURSIVE afterAnalyze(_, _, _)
\* the rule set RuleEngine.analyze leaves behind, from the k-th enabled rule
\* on: the exec that returned null to end the while loop of applyRule has
\* put the cursor of the rule's pattern at 0; a rule whose applyRule threw
\* ends the call
afterAnalyze(rs, enabled, k) ==
    IF k > Len(enabled) THEN rs
    ELSE LET rule == rs.val[enabled[k]]
         IN  IF ~Has(rule, "pattern") THEN afterAnalyze(rs, enabled, k + 1)
             ELSE IF rule.pattern.kind # "regex" THEN rs
             ELSE afterAnalyze(
                      [rs EXCEPT !.val[enabled[k]].pattern.lastIndex = 0],
                      enabled, k + 1)

RECURSIVE analyzeLoopBackwards(_, _, _, _, _)
\* the for loop of analyze putting a rule's violations before those of the
\* rules ahead of it
analyzeLoopBackwards(rs, enabled, text, filePath, k) ==
    IF k > Len(enabled) THEN [threw |-> FALSE, value |-> <<>>]
    ELSE LET violations == applyRule(rs.val[enabled[k]], enabled[k], text, filePath)
             rest       == analyzeLoopBackwards(rs, enabled, text, filePath, k + 1)
         IN  IF violations.threw \/ rest.threw
                THEN [threw |-> TRUE, value |-> <<>>]
                ELSE [threw |-> FALSE, value |-> rest.value \o violations.value]

RECURSIVE analyzeLoop(_, _, _, _, _)
\* the for loop of RuleEngine.analyze from the k-th enabled rule on
analyzeLoop(rs, enabled, text, filePath, k) ==
    IF k > Len(enabled) THEN [threw |-> FALSE, value |-> <<>>]
    ELSE LET violations == applyRule(rs.val[enabled[k]], enabled[k], text, filePath)
             rest       == analyzeLoop(rs, enabled, text, filePath, k + 1)
         IN  IF violations.threw \/ rest.threw
                THEN [threw |-> TRUE, value |-> <<>>]
                ELSE [threw |-> FALSE, value |-> violations.value \o rest.value]

\* RuleEngine.analyze
RuleEngineAnalyze(rs, enabled, text, filePath) ==
    analyzeLoop(rs, enabled, text, filePath, 1)

\* rule.prop = value
SetProp(obj, prop, value) == (prop :> value) @@ obj

\* setRuleEnabled without the refresh of enabledRules
setRuleEnabledStale(rs, enabled, ruleName, flag) ==
    IF ruleName \in Range(rs.keys)
       THEN [rules |-> [rs EXCEPT !.val[ruleName] = SetProp(@, "enabled", flag)],
             enabledRules |-> enabled]
       ELSE [rules |-> rs, enabledRules |-> enabled]

\* RuleEngine.setRuleEnabled: the engine's rules and enabledRules after it
setRuleEnabled(rs, enabled, ruleName, flag) ==
    IF ruleName \in Range(rs.keys)
       THEN LET rs2 == [rs EXCEPT !.val[ruleName] = SetProp(@, "enabled", flag)]
            IN  [rules |-> rs2, enabledRules |-> getEnabledRules(rs2)]
       ELSE [rules |-> rs, enabledRules |-> enabled]

\* RuleEngine.addRule: the engine's rules and enabledRules after it
addRule(rs, enabled, ruleName, ruleConfig) ==
    LET rs2 == SetKey(rs, ruleName,
                   SpreadProps([name |-> ruleName, enabled |-> TRUE,
                                severity |-> "warning"], ruleConfig))
    IN  [rules |-> rs2, enabledRules |-> getEnabledRules(rs2)]

-----------------------------------------------------------------------------
(* MLAnalyzer *)

Detector(type, message) == [type |-> type, pattern |-> Regex(type), message |-> message]

\* MLAnalyzer.getHeuristicPatterns
getHeuristicPatterns ==
    [keys |-> <<"race-condition", "memory-leak", "null-access", "type-safety",
                "performance">>,
     val |->
        ("race-condition" :>
            [description |-> "Potential race condition detected",
             severity |-> "warning", confidence |-> 80,
             patterns |-> <<
                Detector("async-await-misuse",
                    "Async function with await but no proper error handling"),
                Detector("promise-chain-missing-catch",
                    "Promise chain missing error handling (.catch)") >>]) @@
        ("memory-leak" :>
            [description |-> "Potential memory leak detected",
             severity |-> "warning", confidence |-> 75,
             patterns |-> <<
                Detector("event-listener-no-removal",
                    "Event listener added but no removal mechanism visible"),
                Detector("setinterval-no-clear",
                    "setInterval called but no clearInterval visible") >>]) @@
        ("null-access" :>
            [description |-> "Potential null/undefined access",
             severity |-> "warning", confidence |-> 85,
             patterns |-> <<
                Detector("optional-chaining-missing",
                    "Deep property access without null checks"),
                Detector("array-access-no-bounds-check",
                    "Array access without bounds checking") >>]) @@
        ("type-safety" :>
            [description |-> "Potential type safety issue",
             severity |-> "warning", confidence |-> 80,
             patterns |-> <<
                Detector("loose-equality",
                    "Use strict equality (===) instead of loose equality (==)"),
                Detector("loose-inequality",
                    "Use strict inequality (!==) instead of loose inequality (!=)") >>]) @@
        ("performance" :>
            [description |-> "Performance anti-pattern detected",
             severity |-> "warning", confidence |-> 70,
             patterns |-> <<
                Detector("nested-loops",
                    "Nested loops detected - consider optimization"),
                Detector("string-concatenation-in-loop",
                    "String concatenation in loop - consider using array.join()") >>])]

\* MLAnalyzer.constructor: this.config
MLConfig(given) ==
    SpreadProps([enabled |-> TRUE, confidenceThreshold |-> 70,
                 maxWarningsPerFile |-> 10], given)

\* MLAnalyzer.initializeModel: this.model; it has no await, so it has run to
\* its end when the constructor returns
initializeModel ==
    [type |-> "heuristic", version |-> "1.0.0", patterns |-> getHeuristicPatterns]

Min(a, b) == IF a < b THEN a ELSE b
Max(a, b) == IF a > b THEN a ELSE b

\* calculateConfidence without the deduction for a disable comment
calculateConfidenceUnmarked(match, lineContent, lineNumber) ==
    LET base   == 50
        longer == IF match.length > 20 THEN base + 20 ELSE base
        common == IF \/ StrIncludes(match.head, "setInterval")
                     \/ StrIncludes(match.head, "addEventListener")
                     THEN longer + 10 ELSE longer
    IN  Max(0, Min(100, common))

\* MLAnalyzer.calculateConfidence, in hundredths
calculateConfidence(match, lineContent, lineNumber) ==
    LET base   == 50
        longer == IF match.length > 20 THEN base + 20 ELSE base
        marked == IF \/ LineIncludes(lineContent, "// outrider-disable")
                     \/ LineIncludes(lineContent, "// eslint-disable")
                     THEN longer - 30 ELSE longer
        common == IF \/ StrIncludes(match.head, "setInterval")
                     \/ StrIncludes(match.head, "addEventListener")
                     THEN marked + 10 ELSE marked
    IN  Max(0, Min(100, common))

RECURSIVE findLoop(_, _, _, _)
\* the while loop of findPatternMatches, with the pattern's cursor at
\* fragment from
findLoop(pattern, text, lines, from) ==
    LET i == NextMatch(pattern.id, text, from)
    IN  IF i = 0 THEN <<>>
        ELSE LET match == MatchAt(pattern.id, text, i)
                 lc    == MLgetLineAndColumn(text, match.index)
             IN  << [line       |-> lc.line,
                     column     |-> lc.column,
                     confidence |-> calculateConfidence(match, lines[lc.line], lc.line),
                     match      |-> match] >>
                 \o findLoop(pattern, text, lines, i + match.ntok)

\* MLAnalyzer.findPatternMatches
findPatternMatches(pattern, text, lines) ==
    findLoop(pattern, text, lines, [pattern EXCEPT !.lastIndex = 0].lastIndex + 1)

\* the finding analyzeWithHeuristics pushes for one match (without its
\* suggestion, a text looked up by category and detector)
MLFinding(category, categoryConfig, pattern, match, filePath) ==
    [type       |-> "ml",
     severity   |-> categoryConfig.severity,
     file       |-> filePath,
     line       |-> match.line,
     column     |-> match.column,
     message    |-> pattern.message,
     rule       |-> category \o "-" \o pattern.type,
     confidence |-> match.confidence,
     category   |-> category]

RECURSIVE matchLoopUnfiltered(_, _, _, _, _, _, _)
\* the loop over the matches of one detector without the threshold test
matchLoopUnfiltered(cfg, category, categoryConfig, pattern, matches, filePath, m) ==
    IF m > Len(matches) THEN <<>>
    ELSE <<MLFinding(category, categoryConfig, pattern, matches[m], filePath)>>
         \o matchLoopUnfiltered(cfg, category, categoryConfig, pattern, matches,
                                filePath, m + 1)

RECURSIVE matchLoopStrict(_, _, _, _, _, _, _)
\* the loop over the matches of one detector with > for the threshold test
matchLoopStrict(cfg, category, categoryConfig, pattern, matches, filePath, m) ==
    IF m > Len(matches) THEN <<>>
    ELSE (IF matches[m].confidence > cfg.confidenceThreshold
             THEN <<MLFinding(category, categoryConfig, pattern, matches[m], filePath)>>
             ELSE <<>>)
         \o matchLoopStrict(cfg, category, categoryConfig, pattern, matches,
                            filePath, m + 1)

RECURSIVE matchLoop(_, _, _, _, _, _, _)
\* the loop over the matches of one detector
matchLoop(cfg, category, categoryConfig, pattern, matches, filePath, m) ==
    IF m > Len(matches) THEN <<>>
    ELSE (IF matches[m].confidence >= cfg.confidenceThreshold
             THEN <<MLFinding(category, categoryConfig, pattern, matches[m], filePath)>>
             ELSE <<>>)
         \o matchLoop(cfg, category, categoryConfig, pattern, matches, filePath, m + 1)

RECURSIVE detectorLoop(_, _, _, _, _, _, _)
\* the loop over the detectors of one category
detectorLoop(cfg, category, categoryConfig, text, lines, filePath, d) ==
    IF d > Len(categoryConfig.patterns) THEN <<>>
    ELSE LET pattern == categoryConfig.patterns[d]
             matches == findPatternMatches(pattern.pattern, text, lines)
         IN  matchLoop(cfg, category, categoryConfig, pattern, matches, filePath, 1)
             \o detectorLoop(cfg, category, categoryConfig, text, lines, filePath, d + 1)

RECURSIVE categoryLoop(_, _, _, _, _, _)
\* the loop over Object.entries(this.model.patterns)
categoryLoop(cfg, patterns, text, lines, filePath, c) ==
    IF c > Len(patterns.keys) THEN <<>>
    ELSE detectorLoop(cfg, patterns.keys[c], patterns.val[patterns.keys[c]],
                      text, lines, filePath, 1)
         \o categoryLoop(cfg, patterns, text, lines, filePath, c + 1)

\* MLAnalyzer.analyzeWithHeuristics
analyzeWithHeuristics(cfg, mdl, text, filePath) ==
    categoryLoop(cfg, mdl.patterns, text, Split(text), filePath, 1)

\* a cut that keeps the last end elements instead of the first
SliceTail(seq, end) ==
    LET keep == IF end < 0 THEN Max(Len(seq) + end, 0) ELSE Min(end, Len(seq))
    IN  SubSeq(seq, Len(seq) - keep + 1, Len(seq))

\* Array.prototype.slice(0, end)
Slice0(seq, end) ==
    LET stop == IF end < 0 THEN Max(Len(seq) + end, 0) ELSE Min(end, Len(seq))
    IN  SubSeq(seq, 1, stop)

\* MLAnalyzer.analyze; a model of null is written [type |-> "null"]
MLAnalyzerAnalyze(cfg, mdl, text, filePath) ==
    IF ~cfg.enabled \/ mdl.type = "null" THEN <<>>
    ELSE Slice0(analyzeWithHeuristics(cfg, mdl, text, filePath),
                cfg.maxWarningsPerFile)

\* the model MLAnalyzer.analyze leaves behind: the exec that returned null
\* to end the while loop of findPatternMatches has put the cursor of every
\* detector's pattern at 0
afterMLAnalyze(cfg, mdl) ==
    IF ~cfg.enabled \/ mdl.type = "null" THEN mdl
    ELSE [mdl EXCEPT !.patterns.val =
            [c \in DOMAIN mdl.patterns.val |->
                [mdl.patterns.val[c] EXCEPT !.patterns =
                    [d \in DOMAIN mdl.patterns.val[c].patterns |->
                        [mdl.patterns.val[c].patterns[d]
                            EXCEPT !.pattern.lastIndex = 0]]]]]

\* updateConfig letting the properties the configuration has already win
\* over the new ones
updateConfigKeepingOld(cfg, newConfig) == SpreadProps(newConfig, cfg)

\* MLAnalyzer.updateConfig
updateConfig(cfg, newConfig) == SpreadProps(cfg, newConfig)

-----------------------------------------------------------------------------
(* Rule configurations handed to the RuleEngine constructor *)

\* the "rules" of the README's sample configuration
readmeRules ==
    [keys |-> <<"no-console-log", "no-debugger">>,
     val  |-> ("no-console-log" :> [enabled |-> TRUE, severity |-> "warning"]) @@
              ("no-debugger" :> [enabled |-> TRUE, severity |-> "error"])]

\* the rules of ConfigLoader.getDefaultConfig, which every loaded
\* configuration is merged over
defaultConfigRules ==
    [keys |-> <<"no-console-log", "no-debugger", "no-eval", "no-var",
                "prefer-const", "no-unused-variables">>,
     val  |-> ("no-console-log" :> [enabled |-> TRUE, severity |-> "warning"]) @@
              ("no-debugger" :> [enabled |-> TRUE, severity |-> "error"]) @@
              ("no-eval" :> [enabled |-> TRUE, severity |-> "error"]) @@
              ("no-var" :> [enabled |-> TRUE, severity |-> "warning"]) @@
              ("prefer-const" :> [enabled |-> TRUE, severity |-> "warning"]) @@
              ("no-unused-variables" :> [enabled |-> TRUE, severity |-> "warning"])]

\* the "rules" of the README's custom configuration example
disabledRules ==
    [keys |-> <<"no-console-log">>,
     val  |-> ("no-console-log" :> [enabled |-> FALSE])]

\* a custom rule carrying a compiled regular expression, /\.then\(/g
customRegexRules ==
    [keys |-> <<"no-then">>,
     val  |-> ("no-then" :> [enabled |-> TRUE, severity |-> "info",
                             description |-> "Promise chains are discouraged",
                             pattern |-> Regex("then-call")])]

\* the same custom rule as a JSON file gives it: the pattern is a string
customStringRules ==
    [keys |-> <<"no-then">>,
     val  |-> ("no-then" :> [enabled |-> TRUE, severity |-> "info",
                             description |-> "Promise chains are discouraged",
                             pattern |-> StringPattern("\\.then\\(")])]

RuleConfigs == {EmptyObj, readmeRules, defaultConfigRules, disabledRules,
                customRegexRules, customStringRules}

\* the names and configurations the engine's callers pass to setRuleEnabled
\* and addRule
RuleNames == {"no-console-log", "no-then", "no-such-rule"}

AddRuleConfigs ==
    {[pattern |-> Regex("then-call")],
     [pattern |-> Regex("then-call"), enabled |-> FALSE, severity |-> "error"],
     [pattern |-> Regex("then-call"), exclude |-> <<Regex("no-debugger")>>]}

NoReturn == [threw |-> FALSE, value |-> <<>>]

-----------------------------------------------------------------------------
(* Aggregation: the scan command's generateSummary and the formatter's     *)

\* Math.round(num / den) of a quotient of naturals: the nearest integer,
\* a half going up
MathRound(num, den) == (2 * num + den) \div (2 * den)

\* what Math.min(100, Math.round(0 / 0 * 20)) gives: NaN, which equals no
\* number
NaN == -1

\* results.filter(r => r.severity === severity).length
Count(list, severity) == Len(SelectSeq(list, LAMBDA r : r.severity = severity))

\* generateSummary of the scan command
generateSummary(list) ==
    LET warnings == Count(list, "warning")
        errors   == Count(list, "error")
        totalIssues   == warnings + errors
        weightedScore == (errors * 3) + (warnings * 1)
    IN  [warnings  |-> warnings,
         errors    |-> errors,
         riskScore |-> IF Len(list) > 0
                          THEN IF totalIssues = 0 THEN NaN
                               ELSE Min(100, MathRound(weightedScore * 20, totalIssues))
                          ELSE 0]

\* OutputFormatter.generateSummary scoring the weights without dividing by
\* the number of findings
FormatterGenerateSummaryOfWeights(list) ==
    LET errors   == Count(list, "error")
        warnings == Count(list, "warning")
        weightedScore == (errors * 3) + (warnings * 1)
    IN  [total     |-> Len(list),
         errors    |-> errors,
         warnings  |-> warnings,
         riskScore |-> IF Len(list) > 0
                          THEN Min(100, weightedScore * 20)
                          ELSE 0]

\* OutputFormatter.generateSummary (total, errors, warnings, riskScore; the
\* counts by type, severity and category do not enter the score)
FormatterGenerateSummary(list) ==
    LET errors   == Count(list, "error")
        warnings == Count(list, "warning")
        weightedScore == (errors * 3) + (warnings * 1)
    IN  [total     |-> Len(list),
         errors    |-> errors,
         warnings  |-> warnings,
         riskScore |-> IF Len(list) > 0
                          THEN Min(100, MathRound(weightedScore * 20, Len(list)))
                          ELSE 0]

NoSummary == [by |-> "none"]

NoGroups == [by |-> "none"]

\* the properties every object literal inherits from Object.prototype
ObjectPrototype ==
    {"constructor", "__proto__", "hasOwnProperty", "isPrototypeOf",
     "propertyIsEnumerable", "toLocaleString", "toString", "valueOf"}

RECURSIVE groupLoopPrepending(_, _, _)
\* the reduce putting each result at the head of its file's array
groupLoopPrepending(acc, list, k) ==
    IF k > Len(list) THEN [threw |-> FALSE, value |-> acc]
    ELSE LET file == list[k].file
         IN  IF file \in Range(acc.keys)
                THEN groupLoopPrepending(
                         SetKey(acc, file, <<list[k]>> \o acc.val[file]), list, k + 1)
             ELSE IF file \in ObjectPrototype
                THEN [threw |-> TRUE, value |-> acc]
             ELSE groupLoopPrepending(SetKey(acc, file, <<list[k]>>), list, k + 1)

RECURSIVE groupLoop(_, _, _)
\* results.reduce((acc, result) => ..., {}) from the k-th result on:
\* acc[result.file] is an array the object owns, or a property inherited
\* from Object.prototype, which has no push, or undefined
groupLoop(acc, list, k) ==
    IF k > Len(list) THEN [threw |-> FALSE, value |-> acc]
    ELSE LET file == list[k].file
         IN  IF file \in Range(acc.keys)
                THEN groupLoop(SetKey(acc, file, Append(acc.val[file], list[k])),
                               list, k + 1)
             ELSE IF file \in ObjectPrototype
                THEN [threw |-> TRUE, value |-> acc]
             ELSE groupLoop(SetKey(acc, file, <<list[k]>>), list, k + 1)

\* groupResultsByFile of the scan command
groupResultsByFile(list) == groupLoop(EmptyObj, list, 1)

\* OutputFormatter.groupResultsByFile, the same reduce word for word
FormatterGroupResultsByFile(list) == groupLoop(EmptyObj, list, 1)

\* groupResultsByFile of the fix command, the same reduce word for word
FixGroupResultsByFile(list) == groupLoop(EmptyObj, list, 1)

-----------------------------------------------------------------------------
(* The parts of the program a specification leaves untouched *)

\* a RuleEngine constructed without rules and not called
RuleEngineUnused ==
    /\ customRules = EmptyObj
    /\ rules = initializeRules(customRules)
    /\ enabledRules = getEnabledRules(rules)
    /\ analyzed = FALSE
    /\ ruleRet = NoReturn

\* an MLAnalyzer constructed without configuration and not called
MLAnalyzerUnused ==
    /\ config = MLConfig(<<>>)
    /\ model = initializeModel
    /\ mlAnalyzed = FALSE
    /\ mlRet = <<>>

\* no findings aggregated
SummaryUnused ==
    /\ results = <<>>
    /\ summary = NoSummary
    /\ groups = NoGroups

NoPosition == [of |-> "none"]

\* getLineAndColumn not called
PositionUnused ==
    /\ offset = 0
    /\ position = NoPosition

NotLoaded == [warned |-> FALSE, ml |-> <<>>, done |-> FALSE]

NotConstructed == [constructed |-> FALSE]

\* no configuration loaded
ConfigUnused ==
    /\ route = "none"
    /\ mlOptions = <<>>
    /\ loaded = NotLoaded
    /\ engineConfig = NotConstructed

NotShown == [report |-> "not shown"]

NotFormatted == [called |-> FALSE]

\* no CodeFixer called
FixerUnused ==
    /\ fixableRules = {}
    /\ fixers = <<>>
    /\ fixCall = [op |-> "none"]

\* the analyzer's construction is not followed
ConstructUnused ==
    /\ mlStage = "constructed"
    /\ modelPending = FALSE
    /\ sameTick = FALSE

\* no two engines of one mapping
AliasUnused ==
    /\ heap = <<>>
    /\ engineRules = <<>>
    /\ engineEnabled = <<>>
    /\ lastCall = [op |-> "none"]

\* no engine shared by two calls
SharedUnused ==
    /\ sharedPatterns = <<>>
    /\ callText = <<>>
    /\ callStage = <<>>
    /\ callAt = <<>>
    /\ callFound = <<>>
    /\ running = 0

\* no fix loop followed step by step
LineFixUnused ==
    /\ modified = <<>>
    /\ nFixed = 0
    /\ fixIndex = 0

\* no scan loop followed step by step
LoopUnused ==
    /\ scanOwner = "RuleEngine"
    /\ scanPattern = [kind |-> "regex", id |-> "none", lastIndex |-> 0]
    /\ scanContent = <<>>
    /\ iterations = 0
    /\ scanStage = "idle"

\* no report rendered
FormatUnused ==
    /\ outputFormat = "console"
    /\ shown = NotShown
    /\ formatRet = NotFormatted

\* no fix command run
FixUnused ==
    /\ dryRun = FALSE
    /\ backup = FALSE
    /\ configExists = TRUE
    /\ fixStage = "none"
    /\ processed = 0
    /\ written = <<>>

\* no caller analyzing a text over again
RescanUnused ==
    /\ engine = "none"
    /\ returns = <<>>

\* no scan started
ScanUnused ==
    /\ codeFiles = <<>>
    /\ perFile = <<>>
    /\ exited = FALSE

-----------------------------------------------------------------------------
(* One RuleEngine, its callers enabling, disabling and adding rules between *)
(* analyses of one text                                                     *)

RuleInit ==
    /\ content \in RuleTexts
    /\ customRules \in RuleConfigs
    /\ rules = initializeRules(customRules)
    /\ enabledRules = getEnabledRules(rules)
    /\ analyzed = FALSE
    /\ ruleRet = NoReturn
    /\ MLAnalyzerUnused
    /\ SummaryUnused
    /\ ScanUnused
    /\ PositionUnused
    /\ RescanUnused
    /\ ConfigUnused
    /\ FixUnused
    /\ FormatUnused
    /\ LoopUnused
    /\ LineFixUnused
    /\ SharedUnused
    /\ AliasUnused
    /\ ConstructUnused
    /\ FixerUnused

Analyze ==
    /\ analyzed' = TRUE
    /\ ruleRet' = RuleEngineAnalyze(rules, enabledRules, content, FilePath)
    /\ rules' = afterAnalyze(rules, enabledRules, 1)
    /\ UNCHANGED <<content, customRules, enabledRules, mlVars,
                   summaryVars, scanVars, posVars,
                   rescanVars,
                   configVars,
                   fixVars,
                   formatVars,
                   loopVars,
                   lineFixVars,
                   sharedVars,
                   aliasVars,
                   constructVars,
                   fixerVars>>

SetRuleEnabled ==
    \E ruleName \in RuleNames, flag \in BOOLEAN :
        LET after == setRuleEnabled(rules, enabledRules, ruleName, flag)
        IN  /\ rules' = after.rules
            /\ enabledRules' = after.enabledRules
            /\ analyzed' = FALSE
            /\ ruleRet' = NoReturn
            /\ UNCHANGED <<content, customRules, mlVars, summaryVars,
                           scanVars, posVars,
                           rescanVars,
                           configVars,
                           fixVars,
                           formatVars,
                           loopVars,
                           lineFixVars,
                           sharedVars,
                           aliasVars,
                           constructVars,
                           fixerVars>>

AddRule ==
    \E ruleName \in {"no-then"}, ruleConfig \in AddRuleConfigs :
        LET after == addRule(rules, enabledRules, ruleName, ruleConfig)
        IN  /\ rules' = after.rules
            /\ enabledRules' = after.enabledRules
            /\ analyzed' = FALSE
            /\ ruleRet' = NoReturn
            /\ UNCHANGED <<content, customRules, mlVars, summaryVars,
                           scanVars, posVars,
                           rescanVars,
                           configVars,
                           fixVars,
                           formatVars,
                           loopVars,
                           lineFixVars,
                           sharedVars,
                           aliasVars,
                           constructVars,
                           fixerVars>>

RuleNext == Analyze \/ SetRuleEnabled \/ AddRule

SpecRule == RuleInit /\ [][RuleNext]_vars

-----------------------------------------------------------------------------
(* One MLAnalyzer, its caller updating the configuration between analyses   *)
(* of one text                                                              *)

CategoryNames == Range(getHeuristicPatterns.keys)

CategoryEntry(enabled) == [enabled |-> enabled, severity |-> "warning"]

\* ml.categories of ConfigLoader.getDefaultConfig
defaultCategories == [c \in CategoryNames |-> CategoryEntry(TRUE)]

\* the same with the categories of off switched off
categoriesWithout(off) == [c \in CategoryNames |-> CategoryEntry(c \notin off)]

\* ml of ConfigLoader.getDefaultConfig
defaultMLConfig ==
    [enabled |-> TRUE, confidenceThreshold |-> 70, maxWarningsPerFile |-> 10,
     categories |-> defaultCategories]

\* what the constructor is handed: nothing, the default ml section, and the
\* default ml section with categories switched off
MLConfigs ==
    {<<>>, defaultMLConfig,
     [defaultMLConfig EXCEPT !.categories = categoriesWithout({"memory-leak"})],
     [defaultMLConfig EXCEPT !.categories = categoriesWithout(CategoryNames)]}

\* confidence thresholds in hundredths: 0, 0.7 and 1.1.  On these the
\* comparison of the hundredths agrees with the comparison of the doubles
\* the code computes (they part only at 0.4 and 0.8, where the double sum
\* falls one unit in the last place short)
Thresholds == {0, 70, 110}

MaxWarnings == {0, 1, 2, 10}

\* the objects updateConfig is called with
NewConfigs ==
    {[confidenceThreshold |-> t] : t \in Thresholds}
    \cup {[maxWarningsPerFile |-> k] : k \in MaxWarnings}
    \cup {[enabled |-> b] : b \in BOOLEAN}

MLInit ==
    /\ content \in MLTexts
    /\ \E given \in MLConfigs : config = MLConfig(given)
    /\ model = initializeModel
    /\ mlAnalyzed = FALSE
    /\ mlRet = <<>>
    /\ RuleEngineUnused
    /\ SummaryUnused
    /\ ScanUnused
    /\ PositionUnused
    /\ RescanUnused
    /\ ConfigUnused
    /\ FixUnused
    /\ FormatUnused
    /\ LoopUnused
    /\ LineFixUnused
    /\ SharedUnused
    /\ AliasUnused
    /\ ConstructUnused
    /\ FixerUnused

MLAnalyze ==
    /\ mlAnalyzed' = TRUE
    /\ mlRet' = MLAnalyzerAnalyze(config, model, content, FilePath)
    /\ model' = afterMLAnalyze(config, model)
    /\ UNCHANGED <<config, ruleVars, summaryVars, scanVars, posVars,
                   rescanVars,
                   configVars,
                   fixVars,
                   formatVars,
                   loopVars,
                   lineFixVars,
                   sharedVars,
                   aliasVars,
                   constructVars,
                   fixerVars>>

UpdateConfig ==
    \E newConfig \in NewConfigs :
        /\ config' = updateConfig(config, newConfig)
        /\ mlAnalyzed' = FALSE
        /\ mlRet' = <<>>
        /\ UNCHANGED <<model, ruleVars, summaryVars, scanVars, posVars,
                       rescanVars,
                       configVars,
                       fixVars,
                       formatVars,
                       loopVars,
                       lineFixVars,
                       sharedVars,
                       aliasVars,
                       constructVars,
                       fixerVars>>

MLNext == MLAnalyze \/ UpdateConfig

SpecML == MLInit /\ [][MLNext]_vars

-----------------------------------------------------------------------------
(* Aggregation of one list of findings by either generateSummary *)

Severities == {"error", "warning", "info"}

MaxFindings == 4

\* the lists of findings, told apart by severity alone
FindingLists ==
    UNION {[1..n -> {[type |-> "rule", severity |-> v] : v \in Severities}] :
              n \in 0..MaxFindings}

SummaryInit ==
    /\ results \in FindingLists
    /\ summary = NoSummary
    /\ groups = NoGroups
    /\ content = <<>>
    /\ RuleEngineUnused
    /\ MLAnalyzerUnused
    /\ ScanUnused
    /\ PositionUnused
    /\ RescanUnused
    /\ ConfigUnused
    /\ FixUnused
    /\ FormatUnused
    /\ LoopUnused
    /\ LineFixUnused
    /\ SharedUnused
    /\ AliasUnused
    /\ ConstructUnused
    /\ FixerUnused

ScanSummary ==
    /\ summary' = [by |-> "scan"] @@ generateSummary(results)
    /\ UNCHANGED <<results, groups, ruleVars, mlVars, scanVars, posVars,
                   rescanVars, configVars,
                   fixVars,
                   formatVars,
                   loopVars,
                   lineFixVars,
                   sharedVars,
                   aliasVars,
                   constructVars,
                   fixerVars>>

FormatterSummary ==
    /\ summary' = [by |-> "formatter"] @@ FormatterGenerateSummary(results)
    /\ UNCHANGED <<results, groups, ruleVars, mlVars, scanVars, posVars,
                   rescanVars, configVars,
                   fixVars,
                   formatVars,
                   loopVars,
                   lineFixVars,
                   sharedVars,
                   aliasVars,
                   constructVars,
                   fixerVars>>

SummaryNext == ScanSummary \/ FormatterSummary

SpecSummary == SummaryInit /\ [][SummaryNext]_vars

-----------------------------------------------------------------------------
(* A list of findings of several files, in any order, grouped by file *)

\* absolute paths, as glob.sync gives them
GroupPaths == {"/repo/a.js", "/repo/b.js"}

MaxLine == 2

GroupFindings ==
    {[type |-> "rule", severity |-> "warning", file |-> f, line |-> n] :
        f \in GroupPaths, n \in 1..MaxLine}

GroupLists == UNION {[1..n -> GroupFindings] : n \in 0..MaxFindings}

GroupInit ==
    /\ results \in GroupLists
    /\ summary = NoSummary
    /\ groups = NoGroups
    /\ content = <<>>
    /\ RuleEngineUnused
    /\ MLAnalyzerUnused
    /\ ScanUnused
    /\ PositionUnused
    /\ RescanUnused
    /\ ConfigUnused
    /\ FixUnused
    /\ FormatUnused
    /\ LoopUnused
    /\ LineFixUnused
    /\ SharedUnused
    /\ AliasUnused
    /\ ConstructUnused
    /\ FixerUnused

ScanGroup ==
    /\ groups' = [by |-> "scan"] @@ groupResultsByFile(results)
    /\ UNCHANGED <<results, summary, ruleVars, mlVars, scanVars, posVars,
                   rescanVars, configVars,
                   fixVars,
                   formatVars,
                   loopVars,
                   lineFixVars,
                   sharedVars,
                   aliasVars,
                   constructVars,
                   fixerVars>>

FormatterGroup ==
    /\ groups' = [by |-> "formatter"] @@ FormatterGroupResultsByFile(results)
    /\ UNCHANGED <<results, summary, ruleVars, mlVars, scanVars, posVars,
                   rescanVars, configVars,
                   fixVars,
                   formatVars,
                   loopVars,
                   lineFixVars,
                   sharedVars,
                   aliasVars,
                   constructVars,
                   fixerVars>>

FixGroup ==
    /\ groups' = [by |-> "fix"] @@ FixGroupResultsByFile(results)
    /\ UNCHANGED <<results, summary, ruleVars, mlVars, scanVars, posVars,
                   rescanVars, configVars,
                   fixVars,
                   formatVars,
                   loopVars,
                   lineFixVars,
                   sharedVars,
                   aliasVars,
                   constructVars,
                   fixerVars>>

GroupNext == ScanGroup \/ FormatterGroup \/ FixGroup

SpecGroup == GroupInit /\ [][GroupNext]_vars

-----------------------------------------------------------------------------
(* The scan command: the loop over the files found, then the summary *)

\* ConfigLoader.deepMerge on the rules of two configurations: a rule's
\* properties are merged, the source's winning
deepMerge(target, source) ==
    LET added == SelectSeq(source.keys, LAMBDA k : k \notin Range(target.keys))
        keys  == target.keys \o added
    IN  [keys |-> keys,
         val  |-> [k \in Range(keys) |->
                     IF k \notin Range(source.keys) THEN target.val[k]
                     ELSE IF k \notin Range(target.keys) THEN source.val[k]
                     ELSE SpreadProps(target.val[k], source.val[k])]]

\* the rules of the configuration files a scan is run with: none, the
\* README's custom example, and one adding a custom rule
ConfigFileRules == {EmptyObj, disabledRules, customStringRules}

\* a file of the scanned directory: its path, whether readFileSync can read
\* it, and its text
File(path, readable, text) == [path |-> path, readable |-> readable, text |-> text]

Files ==
    {File("blank.js", TRUE, <<NL, NL, NL>>),
     File("chain.js", TRUE, <<THENL, NL, NL, NL>>),
     File("timer.js", TRUE, <<SETI>>),
     File("gone.js", FALSE, <<>>)}

MaxFiles == 3

\* what scanCodeFiles can return: up to MaxFiles files, none twice
Batches ==
    {b \in UNION {[1..n -> Files] : n \in 0..MaxFiles} :
        \A i, j \in 1..Len(b) : i # j => b[i] # b[j]}

\* the finding analyzeFile's catch pushes (its message without the text of
\* the error)
ParsingError(filePath) ==
    [type     |-> "error",
     severity |-> "error",
     file     |-> filePath,
     line     |-> 1,
     column   |-> 1,
     message  |-> "Failed to analyze file",
     rule     |-> "file-parsing-error"]

\* analyzeFile with a catch that passes the error on to its caller
analyzeFileRethrow(file, rs, enabled, cfg, mdl) ==
    IF ~file.readable THEN [threw |-> TRUE, value |-> <<>>]
    ELSE LET ruleResults == RuleEngineAnalyze(rs, enabled, file.text, file.path)
         IN  IF ruleResults.threw THEN [threw |-> TRUE, value |-> <<>>]
             ELSE [threw |-> FALSE,
                   value |-> ruleResults.value
                             \o MLAnalyzerAnalyze(cfg, mdl, file.text, file.path)]

\* analyzeFile keeping, when the rule engine throws, the violations of the
\* rules that did not, ahead of the finding of its catch
analyzeFileKeepingFound(file, rs, enabled, cfg, mdl) ==
    IF ~file.readable
       THEN [threw |-> FALSE, value |-> <<ParsingError(file.path)>>]
    ELSE LET ruleResults == RuleEngineAnalyze(rs, enabled, file.text, file.path)
             usable == SelectSeq(enabled, LAMBDA n :
                          ~applyRule(rs.val[n], n, file.text, file.path).threw)
         IN  IF ruleResults.threw
                THEN [threw |-> FALSE,
                      value |-> RuleEngineAnalyze(rs, usable, file.text,
                                                  file.path).value
                                \o <<ParsingError(file.path)>>]
                ELSE [threw |-> FALSE,
                      value |-> ruleResults.value
                                \o MLAnalyzerAnalyze(cfg, mdl, file.text, file.path)]

\* analyzeFile of the scan command (the fix command's is the same); parseFile
\* falls back to its basic parser and does not throw
analyzeFile(file, rs, enabled, cfg, mdl) ==
    IF ~file.readable
       THEN [threw |-> FALSE, value |-> <<ParsingError(file.path)>>]
    ELSE LET ruleResults == RuleEngineAnalyze(rs, enabled, file.text, file.path)
         IN  IF ruleResults.threw
                THEN [threw |-> FALSE, value |-> <<ParsingError(file.path)>>]
                ELSE [threw |-> FALSE,
                      value |-> ruleResults.value
                                \o MLAnalyzerAnalyze(cfg, mdl, file.text, file.path)]

\* scanCommand up to its loop: the configuration is loaded, the engines are
\* constructed from it and the files are found
ScanInit ==
    /\ \E fileRules \in ConfigFileRules :
          customRules = deepMerge(defaultConfigRules, fileRules)
    /\ rules = initializeRules(customRules)
    /\ enabledRules = getEnabledRules(rules)
    /\ config = MLConfig(defaultMLConfig)
    /\ model = initializeModel
    /\ codeFiles \in Batches
    /\ perFile = <<>>
    /\ exited = FALSE
    /\ content = <<>>
    /\ analyzed = FALSE
    /\ ruleRet = NoReturn
    /\ mlAnalyzed = FALSE
    /\ mlRet = <<>>
    /\ SummaryUnused
    /\ PositionUnused
    /\ RescanUnused
    /\ ConfigUnused
    /\ FixUnused
    /\ FormatUnused
    /\ LoopUnused
    /\ LineFixUnused
    /\ SharedUnused
    /\ AliasUnused
    /\ ConstructUnused
    /\ FixerUnused

\* one round of the loop over codeFiles; an error out of analyzeFile would
\* reach scanCommand's catch, which exits
ScanFile ==
    /\ ~exited
    /\ Len(perFile) < Len(codeFiles)
    /\ LET fileResults == analyzeFile(codeFiles[Len(perFile) + 1], rules,
                                      enabledRules, config, model)
       IN  IF fileResults.threw
              THEN /\ exited' = TRUE
                   /\ UNCHANGED <<perFile, results>>
              ELSE /\ perFile' = Append(perFile, fileResults.value)
                   /\ results' = results \o fileResults.value
                   /\ UNCHANGED exited
    /\ LET file == codeFiles[Len(perFile) + 1]
       IN  /\ rules' = IF file.readable
                           THEN afterAnalyze(rules, enabledRules, 1)
                           ELSE rules
           /\ model' = IF /\ file.readable
                          /\ ~RuleEngineAnalyze(rules, enabledRules, file.text,
                                                file.path).threw
                           THEN afterMLAnalyze(config, model)
                           ELSE model
    /\ UNCHANGED <<codeFiles, summary, groups, content, customRules, enabledRules,
                   analyzed, ruleRet, config, mlAnalyzed, mlRet, posVars,
                   rescanVars,
                   configVars,
                   fixVars,
                   formatVars,
                   loopVars,
                   lineFixVars,
                   sharedVars,
                   aliasVars,
                   constructVars,
                   fixerVars>>

\* after the loop: the results are displayed and summarised
Summarize ==
    /\ ~exited
    /\ Len(perFile) = Len(codeFiles)
    /\ summary = NoSummary
    /\ summary' = [by |-> "scan"] @@ generateSummary(results)
    /\ groups' = IF results = <<>> THEN groups
                 ELSE [by |-> "scan"] @@ groupResultsByFile(results)
    /\ UNCHANGED <<results, scanVars, ruleVars, mlVars, posVars, rescanVars,
                   configVars,
                   fixVars,
                   formatVars,
                   loopVars,
                   lineFixVars,
                   sharedVars,
                   aliasVars,
                   constructVars,
                   fixerVars>>

ScanNext == ScanFile \/ Summarize

SpecScan == ScanInit /\ [][ScanNext]_vars

-----------------------------------------------------------------------------
(* Both engines' getLineAndColumn on one text and one offset.  The text is  *)
(* written character by character, so that every offset from 0 to its      *)
(* length is one the operators can cut at.                                  *)

Characters == {NL, "a", ";"}

CharTexts == TextsOver(Characters)

PositionInit ==
    /\ content \in CharTexts
    /\ offset \in 0..Len(content)
    /\ position = NoPosition
    /\ RuleEngineUnused
    /\ MLAnalyzerUnused
    /\ SummaryUnused
    /\ ScanUnused
    /\ RescanUnused
    /\ ConfigUnused
    /\ FixUnused
    /\ FormatUnused
    /\ LoopUnused
    /\ LineFixUnused
    /\ SharedUnused
    /\ AliasUnused
    /\ ConstructUnused
    /\ FixerUnused

RuleGetLineAndColumn ==
    /\ position' = [of |-> "rule", at |-> getLineAndColumn(content, offset)]
    /\ UNCHANGED <<offset, ruleVars, mlVars, summaryVars, scanVars,
                   rescanVars, configVars,
                   fixVars,
                   formatVars,
                   loopVars,
                   lineFixVars,
                   sharedVars,
                   aliasVars,
                   constructVars,
                   fixerVars>>

MLGetLineAndColumn ==
    /\ position' = [of |-> "ml", at |-> MLgetLineAndColumn(content, offset)]
    /\ UNCHANGED <<offset, ruleVars, mlVars, summaryVars, scanVars,
                   rescanVars, configVars,
                   fixVars,
                   formatVars,
                   loopVars,
                   lineFixVars,
                   sharedVars,
                   aliasVars,
                   constructVars,
                   fixerVars>>

PositionNext == RuleGetLineAndColumn \/ MLGetLineAndColumn

SpecPosition == PositionInit /\ [][PositionNext]_vars

-----------------------------------------------------------------------------
(* The ml options on their way from a configuration file, or from a caller, *)
(* into an MLAnalyzer and a scan.  The options are JavaScript values: each  *)
(* value carries what typeof gives for it.                                  *)

Num(n) == [typeof |-> "number", number |-> n]
Str(t) == [typeof |-> "string", string |-> t]
Bool(b) == [typeof |-> "boolean", boolean |-> b]

\* ml of ConfigLoader.getDefaultConfig, as JavaScript values
defaultML ==
    [enabled |-> Bool(TRUE), confidenceThreshold |-> Num(70),
     maxWarningsPerFile |-> Num(10), categories |-> defaultCategories]

\* the ml options given: none, well-formed ones, and malformed ones (a
\* threshold of 1.5, a threshold and a limit that are no numbers, a flag
\* that is no boolean)
MLOptions ==
    {<<>>}
    \cup {[confidenceThreshold |-> v] : v \in {Num(0), Num(80), Num(150), Str("high")}}
    \cup {[maxWarningsPerFile |-> v] : v \in {Num(2), Str("many")}}
    \cup {[enabled |-> v] : v \in {Bool(FALSE), Bool(TRUE), Str("yes")}}

ConfigTexts == {<<>>, <<THENL>>, <<THENS, NL, SETI>>, <<SETI, NL, THENL>>}

\* ConfigLoader.validateConfig, the checks on config.ml: true when it throws
validateConfigThrows(ml) ==
    \/ ml.enabled.typeof # "boolean"
    \/ ml.confidenceThreshold.typeof # "number"
    \/ ml.confidenceThreshold.number < 0
    \/ ml.confidenceThreshold.number > 100

\* ConfigLoader.load of a file holding the ml section given: validateAndMerge
\* merges it into the default configuration and validates; the catch of load
\* warns and returns the default configuration
ConfigLoaderLoad(section) ==
    LET mergedConfig == SpreadProps(defaultML, section)
    IN  IF validateConfigThrows(mergedConfig)
           THEN [warned |-> TRUE, ml |-> defaultML, done |-> TRUE]
           ELSE [warned |-> FALSE, ml |-> mergedConfig, done |-> TRUE]

\* MLAnalyzer.constructor: this.config, as JavaScript values
MLAnalyzerConstructor(options) ==
    SpreadProps([enabled |-> Bool(TRUE), confidenceThreshold |-> Num(70),
                 maxWarningsPerFile |-> Num(10)], options)
        @@ [constructed |-> TRUE]

\* !value is false
Truthy(v) ==
    CASE v.typeof = "boolean" -> v.boolean
      [] v.typeof = "number"  -> v.number # 0
      [] v.typeof = "string"  -> v.string # ""

\* this.config as analyze uses it: !enabled takes the flag's truthiness;
\* match.confidence >= threshold is false for every confidence when the
\* threshold is no number, as with a threshold above every confidence;
\* slice(0, limit) takes a limit that is no number for 0
configInUse(cfg) ==
    [k \in DOMAIN cfg \ {"constructed"} |->
        CASE k = "enabled" -> Truthy(cfg[k])
          [] k = "confidenceThreshold" ->
                IF cfg[k].typeof = "number" THEN cfg[k].number ELSE 101
          [] k = "maxWarningsPerFile" ->
                IF cfg[k].typeof = "number" THEN cfg[k].number ELSE 0
          [] OTHER -> cfg[k]]

ConfigInit ==
    /\ route \in {"file", "caller"}
    /\ mlOptions \in MLOptions
    /\ loaded = NotLoaded
    /\ engineConfig = NotConstructed
    /\ content \in ConfigTexts
    /\ MLAnalyzerUnused
    /\ RuleEngineUnused
    /\ SummaryUnused
    /\ ScanUnused
    /\ PositionUnused
    /\ RescanUnused
    /\ FixUnused
    /\ FormatUnused
    /\ LoopUnused
    /\ LineFixUnused
    /\ SharedUnused
    /\ AliasUnused
    /\ ConstructUnused
    /\ FixerUnused

\* scanCommand: const config = await ConfigLoader.load(configPath)
Load ==
    /\ route = "file"
    /\ ~loaded.done
    /\ loaded' = ConfigLoaderLoad(mlOptions)
    /\ UNCHANGED <<route, mlOptions, engineConfig, ruleVars, mlVars,
                   summaryVars, scanVars, posVars, rescanVars,
                   fixVars,
                   formatVars,
                   loopVars,
                   lineFixVars,
                   sharedVars,
                   aliasVars,
                   constructVars,
                   fixerVars>>

\* new MLAnalyzer(config.ml) in scanCommand, new MLAnalyzer(options) of a
\* caller
Construct ==
    /\ ~engineConfig.constructed
    /\ route = "file" => loaded.done
    /\ engineConfig' = MLAnalyzerConstructor(IF route = "file" THEN loaded.ml
                                                               ELSE mlOptions)
    /\ UNCHANGED <<route, mlOptions, loaded, ruleVars, mlVars, summaryVars,
                   scanVars, posVars, rescanVars,
                   fixVars,
                   formatVars,
                   loopVars,
                   lineFixVars,
                   sharedVars,
                   aliasVars,
                   constructVars,
                   fixerVars>>

\* mlAnalyzer.analyze(ast, content, filePath) of the engine constructed
ScanWithConfig ==
    /\ engineConfig.constructed
    /\ ~mlAnalyzed
    /\ mlAnalyzed' = TRUE
    /\ mlRet' = MLAnalyzerAnalyze(configInUse(engineConfig), model, content,
                                  FilePath)
    /\ model' = afterMLAnalyze(configInUse(engineConfig), model)
    /\ UNCHANGED <<config, configVars, ruleVars, summaryVars, scanVars,
                   posVars, rescanVars,
                   fixVars,
                   formatVars,
                   loopVars,
                   lineFixVars,
                   sharedVars,
                   aliasVars,
                   constructVars,
                   fixerVars>>

ConfigNext == Load \/ Construct \/ ScanWithConfig

SpecConfig == ConfigInit /\ [][ConfigNext]_vars

-----------------------------------------------------------------------------
(* A caller analyzing one text with one engine over and over, the engine's  *)
(* pattern objects having been run before by whoever holds them            *)

MaxCalls == 3

\* a custom rule whose pattern object was left with its cursor at c
usedRegexRules(c) ==
    [keys |-> <<"no-then">>,
     val  |-> ("no-then" :> [enabled |-> TRUE, severity |-> "info",
                             description |-> "Promise chains are discouraged",
                             pattern |-> RegexAt("then-call", c)])]

\* the model with the cursor of the d-th detector of category c at cursor
usedModel(c, d, cursor) ==
    [initializeModel EXCEPT !.patterns.val[c].patterns[d].pattern.lastIndex = cursor]

RescanInit ==
    /\ engine \in {"rule", "ml"}
    /\ returns = <<>>
    /\ analyzed = FALSE
    /\ ruleRet = NoReturn
    /\ mlAnalyzed = FALSE
    /\ mlRet = <<>>
    /\ IF engine = "rule"
          THEN /\ content \in RuleTexts
               /\ \E c \in 0..MaxLen : customRules = usedRegexRules(c)
               /\ config = MLConfig(<<>>)
               /\ model = initializeModel
          ELSE /\ content \in MLTexts
               /\ customRules = EmptyObj
               /\ config = MLConfig(defaultMLConfig)
               /\ \E c \in {"race-condition", "memory-leak"}, d \in 1..2,
                     cursor \in 0..MaxLen : model = usedModel(c, d, cursor)
    /\ rules = initializeRules(customRules)
    /\ enabledRules = getEnabledRules(rules)
    /\ SummaryUnused
    /\ ScanUnused
    /\ PositionUnused
    /\ ConfigUnused
    /\ FixUnused
    /\ FormatUnused
    /\ LoopUnused
    /\ LineFixUnused
    /\ SharedUnused
    /\ AliasUnused
    /\ ConstructUnused
    /\ FixerUnused

RuleAnalyzeAgain ==
    /\ engine = "rule"
    /\ Len(returns) < MaxCalls
    /\ returns' = Append(returns,
                         RuleEngineAnalyze(rules, enabledRules, content, FilePath))
    /\ rules' = afterAnalyze(rules, enabledRules, 1)
    /\ UNCHANGED <<engine, content, customRules, enabledRules, analyzed,
                   ruleRet, mlVars, summaryVars, scanVars, posVars,
                   configVars,
                   fixVars,
                   formatVars,
                   loopVars,
                   lineFixVars,
                   sharedVars,
                   aliasVars,
                   constructVars,
                   fixerVars>>

MLAnalyzeAgain ==
    /\ engine = "ml"
    /\ Len(returns) < MaxCalls
    /\ returns' = Append(returns,
                         MLAnalyzerAnalyze(config, model, content, FilePath))
    /\ model' = afterMLAnalyze(config, model)
    /\ UNCHANGED <<engine, config, mlAnalyzed, mlRet, ruleVars, summaryVars,
                   scanVars, posVars, configVars,
                   fixVars,
                   formatVars,
                   loopVars,
                   lineFixVars,
                   sharedVars,
                   aliasVars,
                   constructVars,
                   fixerVars>>

RescanNext == RuleAnalyzeAgain \/ MLAnalyzeAgain

SpecRescan == RescanInit /\ [][RescanNext]_vars

-----------------------------------------------------------------------------
(* A caller switching one MLAnalyzer off and on between analyses of one     *)
(* text; returns is the caller's record of its calls                        *)

ToggleInit ==
    /\ engine = "ml"
    /\ content \in ConfigTexts
    /\ \E b \in BOOLEAN :
          /\ config = MLConfig([enabled |-> b])
          /\ returns = <<[call |-> "constructor", enabled |-> b]>>
    /\ model = initializeModel
    /\ mlAnalyzed = FALSE
    /\ mlRet = <<>>
    /\ RuleEngineUnused
    /\ SummaryUnused
    /\ ScanUnused
    /\ PositionUnused
    /\ ConfigUnused
    /\ FixUnused
    /\ FormatUnused
    /\ LoopUnused
    /\ LineFixUnused
    /\ SharedUnused
    /\ AliasUnused
    /\ ConstructUnused
    /\ FixerUnused

\* updateConfig({ enabled: b })
ToggleEnabled ==
    /\ Len(returns) < 2 * MaxCalls
    /\ \E b \in BOOLEAN :
          /\ config' = updateConfig(config, [enabled |-> b])
          /\ returns' = Append(returns, [call |-> "updateConfig", enabled |-> b])
    /\ UNCHANGED <<engine, model, mlAnalyzed, mlRet, ruleVars, summaryVars,
                   scanVars, posVars, configVars,
                   fixVars,
                   formatVars,
                   loopVars,
                   lineFixVars,
                   sharedVars,
                   aliasVars,
                   constructVars,
                   fixerVars>>

ToggleAnalyze ==
    /\ Len(returns) < 2 * MaxCalls
    /\ returns' = Append(returns,
                         [call  |-> "analyze",
                          value |-> MLAnalyzerAnalyze(config, model, content,
                                                      FilePath)])
    /\ model' = afterMLAnalyze(config, model)
    /\ UNCHANGED <<engine, config, mlAnalyzed, mlRet, ruleVars, summaryVars,
                   scanVars, posVars, configVars,
                   fixVars,
                   formatVars,
                   loopVars,
                   lineFixVars,
                   sharedVars,
                   aliasVars,
                   constructVars,
                   fixerVars>>

ToggleNext == ToggleEnabled \/ ToggleAnalyze

SpecToggle == ToggleInit /\ [][ToggleNext]_vars

-----------------------------------------------------------------------------
(* The report of a list of findings: displayResults of the scan command,    *)
(* and an OutputFormatter constructed with a format name and asked to       *)
(* format.  A report is the name of its format and what it is made of.      *)

\* the names the scan command's option takes, and one it does not
FormatNames == {"console", "json", "csv", "xml"}

\* displayResults: it prints for the console format and nothing otherwise
displayResults(list, format) ==
    IF format = "console"
       THEN IF Len(list) = 0
               THEN [report |-> "console", text |-> "No issues found"]
               ELSE [report |-> "console", text |-> "Analysis Results",
                     byFile |-> groupResultsByFile(list).value]
       ELSE [report |-> "nothing"]

\* the body of OutputFormatter.format run with this.format = name:
\* this.formatters[this.format], and the formatter called with the results
formatBody(name, list) ==
    CASE name = "console" ->
            [threw |-> FALSE,
             value |-> IF Len(list) = 0
                          THEN [report |-> "console", text |-> "No issues found"]
                          ELSE [report |-> "console", text |-> "Analysis Results",
                                byFile |-> FormatterGroupResultsByFile(list).value]]
      [] name = "json" ->
            [threw |-> FALSE,
             value |-> [report |-> "json",
                        summary |-> FormatterGenerateSummary(list),
                        results |-> list]]
      [] name = "csv" ->
            [threw |-> FALSE,
             value |-> [report |-> "csv", rows |-> list]]
      [] OTHER ->
            [threw |-> TRUE, value |-> [error |-> "Unsupported output format"]]

\* new OutputFormatter(name): the constructor assigns this.format = name, an
\* own property that hides OutputFormatter.prototype.format
OutputFormatter(name) ==
    [own |-> [format |-> [typeof |-> "string", string |-> name]],
     proto |-> [format |-> [typeof |-> "function", string |-> "format"]]]

\* instance.prop: the own property when there is one, else the prototype's
GetProperty(instance, prop) ==
    IF prop \in DOMAIN instance.own THEN instance.own[prop]
    ELSE instance.proto[prop]

\* instance.format(results): calling a property that holds no function
\* throws a TypeError
callFormat(instance, list) ==
    IF GetProperty(instance, "format").typeof = "function"
       THEN formatBody(instance.own.format.string, list)
       ELSE [threw |-> TRUE,
             value |-> [error |-> "TypeError: formatter.format is not a function"]]

FormatInit ==
    /\ outputFormat \in FormatNames
    /\ shown = NotShown
    /\ formatRet = NotFormatted
    /\ results \in GroupLists
    /\ summary = NoSummary
    /\ groups = NoGroups
    /\ content = <<>>
    /\ RuleEngineUnused
    /\ MLAnalyzerUnused
    /\ ScanUnused
    /\ PositionUnused
    /\ RescanUnused
    /\ ConfigUnused
    /\ FixUnused
    /\ LoopUnused
    /\ LineFixUnused
    /\ SharedUnused
    /\ AliasUnused
    /\ ConstructUnused
    /\ FixerUnused

\* scanCommand: displayResults(results, outputFormat); yargs lets only
\* console, json and csv through
DisplayResults ==
    /\ outputFormat \in {"console", "json", "csv"}
    /\ shown = NotShown
    /\ shown' = displayResults(results, outputFormat)
    /\ UNCHANGED <<outputFormat, formatRet, ruleVars, mlVars, summaryVars,
                   scanVars, posVars, rescanVars, configVars, fixVars,
                   loopVars,
                   lineFixVars,
                   sharedVars,
                   aliasVars,
                   constructVars,
                   fixerVars>>

\* new OutputFormatter(outputFormat).format(results)
Format ==
    /\ formatRet = NotFormatted
    /\ formatRet' = [called |-> TRUE]
                    @@ callFormat(OutputFormatter(outputFormat), results)
    /\ UNCHANGED <<outputFormat, shown, ruleVars, mlVars, summaryVars,
                   scanVars, posVars, rescanVars, configVars, fixVars,
                   loopVars,
                   lineFixVars,
                   sharedVars,
                   aliasVars,
                   constructVars,
                   fixerVars>>

FormatNext == DisplayResults \/ Format

SpecFormat == FormatInit /\ [][FormatNext]_vars

-----------------------------------------------------------------------------
(* The fix command: the configuration is loaded, the files are analysed,   *)
(* and every file with fixable findings goes through processFile           *)

ConfigPath == "./outrider.json"

\* CodeFixer.isFixable
isFixable(ruleName) ==
    ruleName \in {"no-trailing-spaces", "no-multiple-empty-lines",
                  "no-mixed-spaces-and-tabs"}

RECURSIVE replaceBlankLines(_, _)
\* content.replace(/\n\s*\n\s*\n/g, '\n\n') from fragment i on
replaceBlankLines(text, i) ==
    IF i > Len(text) THEN <<>>
    ELSE IF MatchTokens(BlankLines, text, i) > 0
       THEN <<NL, NL>> \o replaceBlankLines(text, i + MatchTokens(BlankLines, text, i))
    ELSE <<text[i]>> \o replaceBlankLines(text, i + 1)

\* CodeFixer.fixMultipleEmptyLines
fixMultipleEmptyLines(result, text) ==
    LET fixedContent == replaceBlankLines(text, 1)
    IN  [fixed |-> fixedContent # text, content |-> fixedContent]

\* lines that end in blanks, one that begins with a tab, and what the
\* fixers make of them
TRAILA   == "a;  "
TRAILB   == "b;\t"
TABBED   == "\tc;"
TRIMMEDA == "a;"
TRIMMEDB == "b;"
SPACED   == "  c;"

RECURSIVE Join(_)
\* lines.join('\n')
Join(lines) ==
    IF Len(lines) = 1 THEN Head(lines)
    ELSE Head(lines) \o <<NL>> \o Join(Tail(lines))

\* originalLine.replace(/[ \t]+$/, ''): the blanks are at the end of the
\* line's last fragment
StripTrailing(line) ==
    IF line = <<>> THEN line
    ELSE [line EXCEPT ![Len(line)] =
             CASE @ = TRAILA -> TRIMMEDA
               [] @ = TRAILB -> TRIMMEDB
               [] OTHER      -> @]

\* CodeFixer.fixTrailingSpaces
fixTrailingSpaces(result, text) ==
    LET lines == Split(text)
    IN  IF result.line > 0 /\ result.line <= Len(lines)
           THEN LET originalLine == lines[result.line]
                    fixedLine    == StripTrailing(originalLine)
                IN  IF fixedLine # originalLine
                       THEN [fixed   |-> TRUE,
                             content |-> Join([lines EXCEPT ![result.line] = fixedLine])]
                       ELSE [fixed |-> FALSE, content |-> Join(lines)]
           ELSE [fixed |-> FALSE, content |-> Join(lines)]

\* CodeFixer.fixMixedSpacesAndTabs: the leading white space of a line is at
\* the start of its first fragment; a tab in it becomes two spaces
fixMixedSpacesAndTabs(result, text) ==
    LET lines == Split(text)
    IN  IF result.line > 0 /\ result.line <= Len(lines)
           THEN LET originalLine == lines[result.line]
                IN  IF originalLine # <<>> /\ Head(originalLine) = TABBED
                       THEN [fixed   |-> TRUE,
                             content |-> Join([lines EXCEPT ![result.line] =
                                                  <<SPACED>> \o Tail(originalLine)])]
                       ELSE [fixed |-> FALSE, content |-> Join(lines)]
           ELSE [fixed |-> FALSE, content |-> Join(lines)]

\* CodeFixer.constructor: this.fixers
ConstructorFixers ==
    [keys |-> <<"no-trailing-spaces", "no-multiple-empty-lines",
                "no-mixed-spaces-and-tabs">>,
     val  |-> ("no-trailing-spaces" :> "fixTrailingSpaces") @@
              ("no-multiple-empty-lines" :> "fixMultipleEmptyLines") @@
              ("no-mixed-spaces-and-tabs" :> "fixMixedSpacesAndTabs")]

\* this.fixers[ruleName]: an own property, else the property of that name
\* the object literal inherits from Object.prototype, else undefined
LookupFixer(own, ruleName) ==
    IF ruleName \in Range(own.keys) THEN own.val[ruleName]
    ELSE IF ruleName \in ObjectPrototype THEN "Object.prototype." \o ruleName
    ELSE "undefined"

\* fixer.call(this, result, content): what it returns, or that it threw.
\* The three methods return a fix result. Of the fixers a caller can
\* register, "throws" is a function that throws, "claims" one that returns
\* { fixed: true, content } with the content as given, and "text" a string,
\* which has no call. Object.prototype.__proto__ is an object and has no
\* call either; the functions of Object.prototype return a string, a
\* boolean or an object that is no fix result
callFixer(fixer, result, text) ==
    CASE fixer = "fixTrailingSpaces" ->
            [threw |-> FALSE, value |-> fixTrailingSpaces(result, text)]
      [] fixer = "fixMultipleEmptyLines" ->
            [threw |-> FALSE, value |-> fixMultipleEmptyLines(result, text)]
      [] fixer = "fixMixedSpacesAndTabs" ->
            [threw |-> FALSE, value |-> fixMixedSpacesAndTabs(result, text)]
      [] fixer = "claims" ->
            [threw |-> FALSE, value |-> [fixed |-> TRUE, content |-> text]]
      [] fixer \in {"throws", "text", "Object.prototype.__proto__"} ->
            [threw |-> TRUE, value |-> [fixed |-> FALSE, content |-> text]]
      [] OTHER ->
            [threw |-> FALSE, value |-> [returned |-> fixer]]

\* CodeFixer.applyFix, this.fixers having the own properties own
applyFixWith(own, result, text) ==
    LET fixer == LookupFixer(own, result.rule)
    IN  IF fixer = "undefined" THEN [fixed |-> FALSE, content |-> text]
        ELSE IF callFixer(fixer, result, text).threw
           THEN [fixed |-> FALSE, content |-> text]
        ELSE callFixer(fixer, result, text).value

\* CodeFixer.applyFix on a CodeFixer as constructed
applyFix(result, text) == applyFixWith(ConstructorFixers, result, text)

RECURSIVE fixLoop(_, _, _, _)
\* the loop of processFile over fileResults from the k-th on: fixed and
\* modifiedContent
fixLoop(fileResults, modifiedContent, fixed, k) ==
    IF k > Len(fileResults) THEN [fixed |-> fixed, content |-> modifiedContent]
    ELSE IF ~isFixable(fileResults[k].rule)
       THEN fixLoop(fileResults, modifiedContent, fixed, k + 1)
    ELSE LET fixResult == applyFix(fileResults[k], modifiedContent)
         IN  IF fixResult.fixed
                THEN fixLoop(fileResults, fixResult.content, fixed + 1, k + 1)
                ELSE fixLoop(fileResults, modifiedContent, fixed, k + 1)

\* processFile making its backup after it has written the modified content
processFileBackupLast(fileContent, filePath, fileResults, dry, bak) ==
    LET after == fixLoop(fileResults, fileContent, 0, 1)
    IN  (IF ~dry /\ after.fixed > 0
            THEN <<[path |-> filePath, text |-> after.content]>>
            ELSE <<>>)
        \o (IF bak /\ ~dry
               THEN <<[path |-> filePath \o ".outrider-backup", text |-> after.content]>>
               ELSE <<>>)

\* processFile: the calls of fs.writeFileSync it makes for a file of the
\* given content
processFile(fileContent, filePath, fileResults, dry, bak) ==
    LET after == fixLoop(fileResults, fileContent, 0, 1)
    IN  (IF bak /\ ~dry
            THEN <<[path |-> filePath \o ".outrider-backup", text |-> fileContent]>>
            ELSE <<>>)
        \o (IF ~dry /\ after.fixed > 0
               THEN <<[path |-> filePath, text |-> after.content]>>
               ELSE <<>>)

RECURSIVE fixableLoop(_, _, _, _, _, _)
\* the loop of fixCommand over codeFiles from the k-th on: fixableResults
fixableLoop(files, rs, enabled, cfg, mdl, k) ==
    IF k > Len(files) THEN <<>>
    ELSE SelectSeq(analyzeFile(files[k], rs, enabled, cfg, mdl).value,
                   LAMBDA result : isFixable(result.rule))
         \o fixableLoop(files, rs, enabled, cfg, mdl, k + 1)

\* the file of the batch at filePath
FileAt(files, filePath) ==
    files[CHOOSE k \in 1..Len(files) : files[k].path = filePath]

FixInit ==
    /\ dryRun \in BOOLEAN
    /\ backup \in BOOLEAN
    /\ configExists \in BOOLEAN
    /\ fixStage = "start"
    /\ processed = 0
    /\ written = <<>>
    /\ codeFiles \in Batches
    /\ perFile = <<>>
    /\ exited = FALSE
    /\ content = <<>>
    /\ RuleEngineUnused
    /\ MLAnalyzerUnused
    /\ SummaryUnused
    /\ PositionUnused
    /\ RescanUnused
    /\ ConfigUnused
    /\ FormatUnused
    /\ LoopUnused
    /\ LineFixUnused
    /\ SharedUnused
    /\ AliasUnused
    /\ ConstructUnused
    /\ FixerUnused

\* fixCommand: ConfigLoader.load, which saves the default configuration
\* when there is no configuration file (the text saved is left out), and
\* the engines constructed from what it returns
FixLoad ==
    /\ fixStage = "start"
    /\ fixStage' = "loaded"
    /\ configExists' = TRUE
    /\ written' = IF configExists THEN written
                  ELSE Append(written, [path |-> ConfigPath, text |-> <<>>])
    /\ customRules' = defaultConfigRules
    /\ rules' = initializeRules(defaultConfigRules)
    /\ enabledRules' = getEnabledRules(initializeRules(defaultConfigRules))
    /\ config' = MLConfig(defaultMLConfig)
    /\ UNCHANGED <<dryRun, backup, processed, content, analyzed, ruleRet,
                   model, mlAnalyzed, mlRet, summaryVars, scanVars, posVars,
                   rescanVars, configVars,
                   formatVars,
                   loopVars,
                   lineFixVars,
                   sharedVars,
                   aliasVars,
                   constructVars,
                   fixerVars>>

\* fixCommand: the loop over codeFiles, the early return when nothing is
\* fixable, and the grouping by file; the patterns' cursors are at 0 before
\* and after
FixAnalyze ==
    /\ fixStage = "loaded"
    /\ LET fixableResults == fixableLoop(codeFiles, rules, enabledRules, config,
                                         model, 1)
       IN  /\ results' = fixableResults
           /\ IF fixableResults = <<>>
                 THEN /\ fixStage' = "done"
                      /\ UNCHANGED groups
                 ELSE /\ fixStage' = "grouped"
                      /\ groups' = [by |-> "fix"] @@ FixGroupResultsByFile(fixableResults)
    /\ UNCHANGED <<dryRun, backup, configExists, processed, written, summary,
                   ruleVars, mlVars, scanVars, posVars, rescanVars,
                   configVars,
                   formatVars,
                   loopVars,
                   lineFixVars,
                   sharedVars,
                   aliasVars,
                   constructVars,
                   fixerVars>>

\* fixCommand: one round of the loop over Object.entries(resultsByFile)
FixProcessFile ==
    /\ fixStage = "grouped"
    /\ processed < Len(groups.value.keys)
    /\ LET filePath == groups.value.keys[processed + 1]
       IN  written' = written
                      \o processFile(FileAt(codeFiles, filePath).text, filePath,
                                     groups.value.val[filePath], dryRun, backup)
    /\ processed' = processed + 1
    /\ UNCHANGED <<dryRun, backup, configExists, fixStage, ruleVars, mlVars,
                   summaryVars, scanVars, posVars, rescanVars, configVars,
                   formatVars,
                   loopVars,
                   lineFixVars,
                   sharedVars,
                   aliasVars,
                   constructVars,
                   fixerVars>>

\* fixCommand after the loop: the fix summary and the dry-run message
FixSummary ==
    /\ fixStage = "grouped"
    /\ processed = Len(groups.value.keys)
    /\ fixStage' = "done"
    /\ UNCHANGED <<dryRun, backup, configExists, processed, written, ruleVars,
                   mlVars, summaryVars, scanVars, posVars, rescanVars,
                   configVars,
                   formatVars,
                   loopVars,
                   lineFixVars,
                   sharedVars,
                   aliasVars,
                   constructVars,
                   fixerVars>>

FixNext == FixLoad \/ FixAnalyze \/ FixProcessFile \/ FixSummary

SpecFix == FixInit /\ [][FixNext]_vars

-----------------------------------------------------------------------------
(* Claims about the rule engine *)

\* the rules of the engine whose enabled flag is false
DisabledRules == {n \in Range(rules.keys) : Get(rules.val[n], "enabled") = FALSE}

\* C1: after construction and any sequence of setRuleEnabled and addRule
\* calls, the active set holds no rule whose enabled flag is false, and
\* analyze returns no finding that names such a rule.
C1_NoFindingOfDisabledRule ==
    /\ Range(enabledRules) \cap DisabledRules = {}
    /\ analyzed =>
          \A k \in 1..Len(ruleRet.value) : ruleRet.value[k].rule \notin DisabledRules

\* C1 witness: no-console-log was disabled, the text has a console.log call
\* that the built-in pattern matches, and analyze reported the other rules'
\* findings without it.
C1_Witness ==
    /\ analyzed
    /\ "no-console-log" \in DisabledRules
    /\ Has(rules.val["no-console-log"], "pattern")
    /\ NextMatch("no-console-log", content, 1) > 0
    /\ \E k \in 1..Len(ruleRet.value) : ruleRet.value[k].rule = "no-debugger"

\* the names of built-in rules for which the constructor's configuration
\* gives just enabled: true and a severity, and which the engine still holds
\* as given
SeverityOnlyEntries ==
    {n \in Range(customRules.keys) \cap Range(defaultRules.keys) :
        /\ DOMAIN customRules.val[n] = {"enabled", "severity"}
        /\ customRules.val[n].enabled = TRUE
        /\ rules.val[n] = customRules.val[n]}

\* what the built-in pattern of rule n finds in the text, reported with the
\* configured severity
BuiltInFindings(n) ==
    ruleLoop(SetProp(defaultRules.val[n], "severity", customRules.val[n].severity),
             n, content, FilePath, 1)

\* C3 (as claimed): a built-in rule configured with only enabled: true and a
\* severity stays active; text matching its built-in pattern yields its
\* findings, with the configured severity.
C3_ConfiguredBuiltInStillReports ==
    (analyzed /\ ~ruleRet.threw) =>
        \A n \in SeverityOnlyEntries :
            SelectSeq(ruleRet.value, LAMBDA f : f.rule = n) = BuiltInFindings(n)

\* the line of the text with the number
LineOf(text, line) == Split(text)[line]

\* the line holds a disable comment
Marked(lineContent) == MARK \in Range(lineContent)

\* one of the rule's exclusion patterns matches somewhere on the line
Excluded(rule, lineContent) ==
    /\ Has(rule, "exclude")
    /\ \E e \in Range(rule.exclude) : NextMatch(e.id, lineContent, 1) > 0

\* C11: analyze reports no finding on a line that holds a disable comment,
\* and none on a line that one of the rule's exclusion patterns matches.
C11_NoFindingOnSuppressedLine ==
    (analyzed /\ ~ruleRet.threw) =>
        \A k \in 1..Len(ruleRet.value) :
            LET f == ruleRet.value[k]
            IN  /\ ~Marked(LineOf(content, f.line))
                /\ ~Excluded(rules.val[f.rule], LineOf(content, f.line))

\* C11 witness: the added rule no-then excludes lines with a debugger
\* statement; on the one line ".then(f)debugger;" analyze reported the
\* debugger statement and, though its pattern matches, nothing for no-then.
C11_Witness ==
    /\ analyzed
    /\ content = <<THENS, DBG>>
    /\ "no-then" \in Range(enabledRules)
    /\ Excluded(rules.val["no-then"], content)
    /\ NextMatch(rules.val["no-then"].pattern.id, content, 1) > 0
    /\ \E k \in 1..Len(ruleRet.value) : ruleRet.value[k].rule = "no-debugger"
    /\ \A k \in 1..Len(ruleRet.value) : ruleRet.value[k].rule # "no-then"

\* the offsets (from 0) of the newline characters before offset o
NewlinesBefore(text, o) == {k \in 0..(o - 1) : text[k + 1] = NL}

\* the offset of the last newline before offset o, or -1
LastNewlineBefore(text, o) ==
    IF NewlinesBefore(text, o) = {} THEN -1
    ELSE CHOOSE k \in NewlinesBefore(text, o) :
             \A j \in NewlinesBefore(text, o) : j <= k

\* C12: for every text and every offset o from 0 to its length, either
\* engine's getLineAndColumn returns line = 1 + the number of newlines
\* before o and column = o - the offset of the last newline before o (-1 if
\* none), both at least 1; so the two engines agree.
C12_LineAndColumnOfOffset ==
    position # NoPosition =>
        /\ position.at.line = 1 + Cardinality(NewlinesBefore(content, offset))
        /\ position.at.column = offset - LastNewlineBefore(content, offset)
        /\ position.at.line >= 1
        /\ position.at.column >= 1

\* C12 witness: the rule engine was asked about the end of a text of two
\* lines that does not end with a newline, and answered line 2, column 2.
C12_Witness ==
    /\ position # NoPosition
    /\ position.of = "rule"
    /\ content = <<"a", NL, ";">>
    /\ offset = 3
    /\ position.at = [line |-> 2, column |-> 2]

\* the place of a rule in the rule set's iteration order
RuleIndex(n) == CHOOSE k \in 1..Len(rules.keys) : rules.keys[k] = n

\* the non-overlapping occurrences of a pattern: the fragments at which it
\* matches and which no match starting earlier runs over
PatternStarts(id, text) ==
    {i \in 1..Len(text) :
        /\ MatchTokens(id, text, i) > 0
        /\ \A j \in 1..(i - 1) : j + MatchTokens(id, text, j) <= i}

\* where rule n is due a finding: <<line, column>> of each occurrence of its
\* pattern that is on no suppressed or excluded line
DuePlaces(n) ==
    IF ~Has(rules.val[n], "pattern") THEN {}
    ELSE {<<1 + Cardinality({k \in 1..(i - 1) : content[k] = NL}),
            1 + Offset(content, i)
              - Chars(SubSeq(content, 1,
                    IF \E k \in 1..(i - 1) : content[k] = NL
                       THEN CHOOSE k \in 1..(i - 1) :
                               /\ content[k] = NL
                               /\ \A j \in (k + 1)..(i - 1) : content[j] # NL
                       ELSE 0))>> :
             i \in {i \in PatternStarts(rules.val[n].pattern.id, content) :
                      LET l == LineOf(content,
                                 1 + Cardinality({k \in 1..(i - 1) : content[k] = NL}))
                      IN  ~Marked(l) /\ ~Excluded(rules.val[n], l)}}

\* <<line, column>> of finding k comes before that of finding k + 1
PlaceAscends(list, k) ==
    \/ list[k].line < list[k + 1].line
    \/ list[k].line = list[k + 1].line /\ list[k].column < list[k + 1].column

\* C13: analyze returns, for each enabled rule, one finding per
\* non-overlapping occurrence of its pattern that is neither suppressed nor
\* excluded; the findings come rule by rule in the rule set's iteration
\* order and, within a rule, with strictly ascending <<line, column>>.
C13_OneFindingPerOccurrenceInOrder ==
    (analyzed /\ ~ruleRet.threw) =>
        LET list == ruleRet.value
        IN  /\ \A k \in 1..Len(list) : list[k].rule \in Range(enabledRules)
            /\ \A k \in 1..(Len(list) - 1) :
                  \/ RuleIndex(list[k].rule) < RuleIndex(list[k + 1].rule)
                  \/ /\ list[k].rule = list[k + 1].rule
                     /\ PlaceAscends(list, k)
            /\ \A n \in Range(enabledRules) :
                  {<<list[k].line, list[k].column>> :
                      k \in {k \in 1..Len(list) : list[k].rule = n}} = DuePlaces(n)

\* C13 witness: in "debugger;console.log(x);console.log(x);" analyze
\* reported both console.log calls, in the order of the text, and after
\* them the debugger statement that stands before them, no-console-log
\* coming before no-debugger in the rule set.
C13_Witness ==
    /\ analyzed
    /\ content = <<DBG, CLOG, CLOG>>
    /\ Len(ruleRet.value) = 3
    /\ ruleRet.value[1].rule = "no-console-log"
    /\ ruleRet.value[2].rule = "no-console-log"
    /\ ruleRet.value[1].column < ruleRet.value[2].column
    /\ ruleRet.value[3].rule = "no-debugger"
    /\ ruleRet.value[3].column = 1

-----------------------------------------------------------------------------
(* Claims about the configuration *)

\* an ml option of the kind and range the engine works with
WellFormedML(cfg) ==
    /\ cfg.enabled.typeof = "boolean"
    /\ cfg.confidenceThreshold.typeof = "number"
    /\ cfg.confidenceThreshold.number \in 0..100
    /\ cfg.maxWarningsPerFile.typeof = "number"
    /\ cfg.maxWarningsPerFile.number >= 0

\* C16: malformed ml options are rejected when the configuration is loaded
\* or the engine is constructed: no scan runs with an MLAnalyzer that holds
\* a malformed value.
C16_NoScanWithMalformedValue ==
    mlAnalyzed => WellFormedML(engineConfig)

-----------------------------------------------------------------------------
(* Claims about analyzing a text over again *)

\* C14: every analyze call of a caller that analyzes one text over and over
\* with one engine, RuleEngine or MLAnalyzer, and changes no configuration
\* in between, returned the same sequence of findings as the call before
\* it, wherever the cursors of the pattern objects stood before the first
\* call: each scan begins at the start of the text.
C14_AnalyzeAgainReturnsTheSame ==
    /\ \A k \in 1..(Len(returns) - 1) : returns[k] = returns[k + 1]
    /\ (engine = "rule" /\ returns # <<>>) =>
          returns[1] = RuleEngineAnalyze(initializeRules(usedRegexRules(0)),
                                         enabledRules, content, FilePath)
    /\ (engine = "ml" /\ returns # <<>>) =>
          returns[1] = MLAnalyzerAnalyze(config, initializeModel, content, FilePath)

\* C14 witness: a RuleEngine whose no-then pattern came with its cursor
\* behind the only .then( call of the text has returned that call's finding
\* twice.
C14_Witness ==
    /\ engine = "rule"
    /\ content = <<THENS, NL>>
    /\ customRules.val["no-then"].pattern.lastIndex = 2
    /\ Len(returns) = 2
    /\ Len(returns[1].value) = 1
    /\ returns[1].value[1].rule = "no-then"

-----------------------------------------------------------------------------
(* Claims about the heuristic analyzer *)

\* a detector is named <<position of its category, position in it>>; every
\* category has two
CategoryOf(det) == getHeuristicPatterns.keys[det[1]]

DetectorOf(det) == getHeuristicPatterns.val[CategoryOf(det)].patterns[det[2]]

\* the rule identifier findings of a detector carry
RuleOf(det) == CategoryOf(det) \o "-" \o DetectorOf(det).type

\* the occurrences in the text: <<category, detector, fragment>> for every
\* fragment at which the detector's pattern matches
Occurrences ==
    {occ \in (1..Len(getHeuristicPatterns.keys)) \X (1..2) \X (1..Len(content)) :
        MatchTokens(DetectorOf(<<occ[1], occ[2]>>).type, content, occ[3]) > 0}

OccMatch(occ) == MatchAt(DetectorOf(<<occ[1], occ[2]>>).type, content, occ[3])

OccPlace(occ) == getLineAndColumn(content, OccMatch(occ).index)

OccLine(occ) == Split(content)[OccPlace(occ).line]

\* finding f reports occurrence occ
Reports(f, occ) ==
    /\ f.rule = RuleOf(<<occ[1], occ[2]>>)
    /\ f.line = OccPlace(occ).line
    /\ f.column = OccPlace(occ).column

\* the categories the configuration switches off
DisabledCategories ==
    IF Has(config, "categories")
       THEN {c \in DOMAIN config.categories : config.categories[c].enabled = FALSE}
       ELSE {}

\* C2 (as claimed): a category whose configuration entry is disabled
\* contributes no finding to analyze.
C2_DisabledCategorySilent ==
    mlAnalyzed =>
        \A k \in 1..Len(mlRet) : mlRet[k].category \notin DisabledCategories

\* C7: every finding analyze returns has a confidence of at least the
\* configured threshold, and with a threshold above 1 the result is empty.
C7_ConfidenceAtLeastThreshold ==
    mlAnalyzed =>
        /\ \A k \in 1..Len(mlRet) : mlRet[k].confidence >= config.confidenceThreshold
        /\ config.confidenceThreshold > 100 => mlRet = <<>>

\* C7 witness: with the threshold at 0.7 the text holds a short promise
\* chain (confidence 0.5) and a long one (0.7), and analyze returned the
\* long one alone.
C7_Witness ==
    /\ mlAnalyzed
    /\ config.confidenceThreshold = 70
    /\ \E occ \in Occurrences :
          calculateConfidence(OccMatch(occ), OccLine(occ), OccPlace(occ).line) = 50
    /\ Len(mlRet) = 1
    /\ mlRet[1].confidence = 70

\* the confidence as claimed: 0.5, plus 0.2 for a matched text of more than
\* 20 characters, minus 0.3 for a disable comment on the line, plus 0.1 for
\* setInterval or addEventListener in the matched text, clamped to [0, 1]
ClaimedConfidence(base, long, marked, signal) ==
    LET sum == base + (IF long THEN 20 ELSE 0) - (IF marked THEN 30 ELSE 0)
                    + (IF signal THEN 10 ELSE 0)
    IN  IF sum < 0 THEN 0 ELSE IF sum > 100 THEN 100 ELSE sum

OccLong(occ) == OccMatch(occ).length > 20

OccMarked(occ) == MARK \in Range(OccLine(occ))

OccSignal(occ) == content[occ[3]] = SETI

\* C8: the confidence of every returned finding is the claimed sum for the
\* occurrence it reports, and for an occurrence on a line with a disable
\* comment it is 0.3 below (not below 0) what the same match gets on a line
\* without one.
C8_ConfidenceFormula ==
    mlAnalyzed =>
        \A k \in 1..Len(mlRet) : \E occ \in Occurrences :
            /\ Reports(mlRet[k], occ)
            /\ mlRet[k].confidence =
                  ClaimedConfidence(50, OccLong(occ), OccMarked(occ), OccSignal(occ))
            /\ OccMarked(occ) =>
                  mlRet[k].confidence =
                      Max(0, calculateConfidence(OccMatch(occ), <<>>, 1) - 30)

\* C8 witness: analyze returned a finding for a setInterval call on a line
\* with a disable comment, at 0.5 + 0.2 - 0.3 + 0.1.
C8_Witness ==
    /\ mlAnalyzed
    /\ \E k \in 1..Len(mlRet) : \E occ \in Occurrences :
          /\ Reports(mlRet[k], occ)
          /\ OccMarked(occ) /\ OccLong(occ) /\ OccSignal(occ)
          /\ mlRet[k].confidence = 50

\* C9 (as claimed): a finding has its category's severity, and its
\* confidence is the claimed sum started from the base confidence declared
\* on its category.
C9_CategoryBaseConfidence ==
    mlAnalyzed =>
        \A k \in 1..Len(mlRet) : \E occ \in Occurrences :
            /\ Reports(mlRet[k], occ)
            /\ mlRet[k].severity = getHeuristicPatterns.val[mlRet[k].category].severity
            /\ mlRet[k].confidence =
                  ClaimedConfidence(getHeuristicPatterns.val[mlRet[k].category].confidence,
                                    OccLong(occ), OccMarked(occ), OccSignal(occ))

\* the occurrences whose confidence passes the threshold
Passing ==
    {occ \in Occurrences :
        calculateConfidence(OccMatch(occ), OccLine(occ), OccPlace(occ).line)
            >= config.confidenceThreshold}

\* scan order: category, then detector, then position in the text
Before(p, q) ==
    \/ p[1] < q[1]
    \/ p[1] = q[1] /\ p[2] < q[2]
    \/ p[1] = q[1] /\ p[2] = q[2] /\ p[3] < q[3]

\* C10: with the analyzer enabled and maxWarningsPerFile = k >= 0, analyze
\* returns min(k, n) findings, the j-th of them reporting the passing
\* occurrence that has j - 1 passing occurrences before it in scan order.
C10_HeadCutInScanOrder ==
    (mlAnalyzed /\ config.enabled /\ config.maxWarningsPerFile >= 0) =>
        /\ Len(mlRet) = Min(config.maxWarningsPerFile, Cardinality(Passing))
        /\ \A j \in 1..Len(mlRet) : \E p \in Passing :
              /\ Cardinality({q \in Passing : Before(q, p)}) = j - 1
              /\ Reports(mlRet[j], p)

\* C10 witness: three occurrences of two categories pass, the limit is 2,
\* and analyze returned the promise chain (race-condition) and the first
\* setInterval call (memory-leak), the later one being cut.
C10_Witness ==
    /\ mlAnalyzed
    /\ config.enabled
    /\ config.maxWarningsPerFile = 2
    /\ Cardinality(Passing) = 3
    /\ Len(mlRet) = 2
    /\ mlRet[1].category = "race-condition"
    /\ mlRet[2].category = "memory-leak"
    /\ content[1] = SETI

\* the enabled flag the caller gave last before its k-th call, to the
\* constructor or to updateConfig
FlagBefore(k) ==
    LET j == CHOOSE j \in 1..(k - 1) :
                /\ returns[j].call # "analyze"
                /\ \A i \in (j + 1)..(k - 1) : returns[i].call = "analyze"
    IN  returns[j].enabled

\* C19: an analyze called while the enabled flag, as given to the
\* constructor or to the latest updateConfig, is false returns the empty
\* list for every text; an analyze called while it is true returns the
\* findings of an analyzer that was never switched off, so switching on
\* again restores them.
C19_DisabledReturnsNothingEnabledRestores ==
    engine = "ml" =>
        \A k \in 2..Len(returns) :
            (returns[k].call = "analyze") =>
                IF FlagBefore(k)
                   THEN returns[k].value =
                            MLAnalyzerAnalyze(MLConfig(<<>>), initializeModel,
                                              content, FilePath)
                   ELSE returns[k].value = <<>>

\* C19 witness: a caller found a promise chain, switched the analyzer off
\* and got nothing, switched it on again and found the chain again
C19_Witness ==
    /\ engine = "ml"
    /\ content = <<THENL>>
    /\ Len(returns) = 6
    /\ returns[1] = [call |-> "constructor", enabled |-> TRUE]
    /\ returns[2].call = "analyze" /\ returns[2].value # <<>>
    /\ returns[3] = [call |-> "updateConfig", enabled |-> FALSE]
    /\ returns[4] = [call |-> "analyze", value |-> <<>>]
    /\ returns[5] = [call |-> "updateConfig", enabled |-> TRUE]
    /\ returns[6] = returns[2]

-----------------------------------------------------------------------------
(* Claims about aggregation *)

\* the number of findings of a list that have the severity
Number(list, severity) ==
    Cardinality({k \in 1..Len(list) : list[k].severity = severity})

\* min(100, round((3 * #error + 1 * #warning) / N * 20)), N being the number
\* of findings of any severity, and 0 for the empty list
ClaimedRiskScore(list) ==
    IF Len(list) = 0 THEN 0
    ELSE LET weights == 3 * Number(list, "error") + Number(list, "warning")
             \* the integer r nearest weights * 20 / N, a half going up:
             \* r - 1/2 <= weights * 20 / N < r + 1/2
             r == CHOOSE r \in 0..60 :
                     /\ (2 * r - 1) * Len(list) <= 40 * weights
                     /\ 40 * weights < (2 * r + 1) * Len(list)
         IN  IF r > 100 THEN 100 ELSE r

MaxCopies == 3

RECURSIVE Copies(_, _)
\* the list made of k copies of list
Copies(list, k) == IF k = 0 THEN <<>> ELSE list \o Copies(list, k - 1)

\* the risk score the generateSummary that made the summary gives to list
RiskScoreBy(by, list) ==
    IF by = "scan" THEN generateSummary(list).riskScore
    ELSE FormatterGenerateSummary(list).riskScore

\* C18: for every non-empty list of findings and every k >= 1, the risk
\* score of the list made of k copies of it, from the scan command's
\* summary and from the formatter's, is the risk score of the list itself
\* (not a number for both counting as the same); and a non-empty list of
\* findings that are all errors scores 60.
C18_RiskScoreOfCopiesIsTheSame ==
    (summary.by \in {"scan", "formatter"} /\ results # <<>>) =>
        /\ \A k \in 1..MaxCopies :
              RiskScoreBy(summary.by, Copies(results, k)) = summary.riskScore
        /\ (\A i \in 1..Len(results) : results[i].severity = "error") =>
              summary.riskScore = 60

\* C18 witness: the formatter's summary of two copies of the list of a
\* warning and an error scores 40, as the list of one warning and one error
\* does
C18_Witness ==
    /\ summary.by = "formatter"
    /\ Len(results) = 4
    /\ results = Copies(SubSeq(results, 1, 2), 2)
    /\ results[1].severity = "warning"
    /\ results[2].severity = "error"
    /\ summary.riskScore = 40
    /\ FormatterGenerateSummary(SubSeq(results, 1, 2)).riskScore = 40

\* the findings of file f in list, in the order of list
FindingsOf(list, f) == SelectSeq(list, LAMBDA r : r.file = f)

\* C17: for every list of findings, each of the three groupResultsByFile
\* returns one group for each file of the list and no other, and the group
\* of a file holds exactly the findings of that file, unchanged and in the
\* order they have in the list; so every finding is in exactly one group.
C17_GroupsAreTheFindingsByFileInOrder ==
    groups.by \in {"scan", "formatter", "fix"} =>
        /\ ~groups.threw
        /\ Range(groups.value.keys) = {results[k].file : k \in 1..Len(results)}
        /\ Cardinality(Range(groups.value.keys)) = Len(groups.value.keys)
        /\ \A f \in Range(groups.value.keys) :
              groups.value.val[f] = FindingsOf(results, f)

\* C17 witness: the fix command's grouping of a list in which a finding of
\* b.js stands between two findings of a.js, the later of them on the
\* earlier line
C17_Witness ==
    /\ groups.by = "fix"
    /\ Len(results) = 3
    /\ results[1].file = "/repo/a.js" /\ results[1].line = 2
    /\ results[2].file = "/repo/b.js"
    /\ results[3].file = "/repo/a.js" /\ results[3].line = 1
    /\ groups.value.keys = <<"/repo/a.js", "/repo/b.js">>
    /\ groups.value.val["/repo/a.js"] = <<results[1], results[3]>>
    /\ groups.value.val["/repo/b.js"] = <<results[2]>>

-----------------------------------------------------------------------------
(* Claims about the report *)

\* C22: what the scan command shows for the format json or csv is the
\* report of that format; and format(results) of an OutputFormatter returns
\* the report of the format it was constructed with when that is console,
\* json or csv, and throws 'Unsupported output format' for any other name.
C22_FormatDeterminesReport ==
    /\ (shown # NotShown /\ outputFormat \in {"json", "csv"}) =>
          shown.report = outputFormat
    /\ formatRet.called =>
          IF outputFormat \in {"console", "json", "csv"}
             THEN ~formatRet.threw /\ formatRet.value.report = outputFormat
             ELSE /\ formatRet.threw
                  /\ formatRet.value.error = "Unsupported output format"

-----------------------------------------------------------------------------
(* Claims about the fix command *)

\* C20: a fix command run as a dry run writes no file at all, whatever the
\* backup option is and however many fixes would apply.
C20_DryRunWritesNoFile ==
    dryRun => written = <<>>

\* the paths of the files the fix command analysed
CodePaths == {codeFiles[k].path : k \in 1..Len(codeFiles)}

\* C21: in a fix that is no dry run and has backup on, every write of fixed
\* content over an analysed file comes right after the write, in the same
\* processFile call, of <path>.outrider-backup holding the content the file
\* had when it was read, and the content written differs from it.
C21_BackupWrittenBeforeOverwrite ==
    (~dryRun /\ backup) =>
        \A k \in 1..Len(written) :
            written[k].path \in CodePaths =>
                /\ k > 1
                /\ written[k - 1].path = written[k].path \o ".outrider-backup"
                /\ written[k - 1].text = FileAt(codeFiles, written[k].path).text
                /\ written[k].text # written[k - 1].text

\* C21 witness: blank.js, three newlines, was backed up as read and then
\* overwritten with two newlines
C21_Witness ==
    /\ ~dryRun
    /\ backup
    /\ \E k \in 2..Len(written) :
          /\ written[k] = [path |-> "blank.js", text |-> <<NL, NL>>]
          /\ written[k - 1] = [path |-> "blank.js.outrider-backup",
                               text |-> <<NL, NL, NL>>]

-----------------------------------------------------------------------------
(* Claims about the scan *)

\* the enabled rules whose pattern is not a regular expression
UnusableRules ==
    {n \in Range(enabledRules) :
        Has(rules.val[n], "pattern") /\ rules.val[n].pattern.kind # "regex"}

\* the analysis of the file fails: it cannot be read, or the rule engine
\* throws on it
Fails(file) == ~file.readable \/ UnusableRules # {}

IsParsingError(f, file) ==
    /\ f.severity = "error"
    /\ f.rule = "file-parsing-error"
    /\ f.line = 1
    /\ f.column = 1
    /\ f.file = file.path

RECURSIVE Flatten(_)
Flatten(lists) == IF lists = <<>> THEN <<>> ELSE Head(lists) \o Flatten(Tail(lists))

\* C5: a file whose analysis fails gets exactly one finding, of severity
\* error, rule file-parsing-error, line 1 and column 1.  The scan does not
\* exit over it, so the loop's next round (which needs only that, and a file
\* left) runs; the files are analysed in order, and the summary is made once
\* every file of the batch has been analysed.
C5_FailureIsOneFindingAndScanGoesOn ==
    /\ ~exited
    /\ Len(perFile) <= Len(codeFiles)
    /\ results = Flatten(perFile)
    /\ \A j \in 1..Len(perFile) :
          /\ perFile[j] # <<>> => \A k \in 1..Len(perFile[j]) :
                                     perFile[j][k].file = codeFiles[j].path
          /\ Fails(codeFiles[j]) =>
                Len(perFile[j]) = 1 /\ IsParsingError(perFile[j][1], codeFiles[j])
    /\ summary.by = "scan" => Len(perFile) = Len(codeFiles)

\* C5 witness: the first file of three could not be read and got its one
\* finding; both files after it were analysed and have findings of the
\* engines.
C5_Witness ==
    /\ Len(codeFiles) = 3
    /\ Len(perFile) = 3
    /\ ~codeFiles[1].readable
    /\ Len(perFile[1]) = 1 /\ IsParsingError(perFile[1][1], codeFiles[1])
    /\ \A j \in 2..3 : perFile[j] # <<>> /\ perFile[j][1].type \in {"rule", "ml"}
    /\ summary.by = "scan"

\* what a file's findings are if just the unusable rules are skipped
FindingsSkipping(file) ==
    RuleEngineAnalyze(rules,
                      SelectSeq(enabledRules, LAMBDA n : n \notin UnusableRules),
                      file.text, file.path).value
    \o MLAnalyzerAnalyze(config, model, file.text, file.path)

\* C6 (as claimed): when a custom rule has an unusable pattern, only that
\* rule is skipped; the findings of the other enabled rules and the
\* heuristic findings of the file are still reported.
C6_OnlyUnusableRuleSkipped ==
    \A j \in 1..Len(perFile) :
        (codeFiles[j].readable /\ UnusableRules # {}) =>
            perFile[j] = FindingsSkipping(codeFiles[j])

\* C15: every finding in the result list of a scan is of type "rule" or
\* "ml", with a line and a column of at least 1; a finding of type "rule"
\* carries no confidence, one of type "ml" carries a category and a
\* confidence between 0 and 1 (here in hundredths).
C15_FindingsOfRuleOrML ==
    \A k \in 1..Len(results) :
        LET f == results[k]
        IN  /\ f.type \in {"rule", "ml"}
            /\ f.line >= 1
            /\ f.column >= 1
            /\ f.type = "rule" => ~Has(f, "confidence")
            /\ f.type = "ml" =>
                  /\ Has(f, "category")
                  /\ Has(f, "confidence")
                  /\ f.confidence \in 0..100

-----------------------------------------------------------------------------
(* The scan loops of the two engines, one iteration at a time *)

\* a regular expression literal with the flags written after it: /x/ has
\* none, /x/g has "g"
RegexWithFlags(id, flags) ==
    [kind |-> "regex", id |-> id, lastIndex |-> 0, flags |-> flags]

\* RegExp.prototype.global: the literals of the two engines all carry g
global(pattern) == IF Has(pattern, "flags") THEN pattern.flags = "g" ELSE TRUE

\* the patterns that match the empty string: /\s*/
MatchesEmpty(id) == id = "optional-space"

\* pattern.exec(content): the match (found, the fragment it starts at and
\* the fragments it spans) or null, and the pattern object afterwards. A
\* pattern with the g flag searches from lastIndex and leaves lastIndex at
\* the end of the match, or at 0 on null; one without it searches from 0
\* and leaves lastIndex alone
exec(pattern, text) ==
    LET start == IF global(pattern) THEN pattern.lastIndex ELSE 0
        i     == IF MatchesEmpty(pattern.id) THEN start + 1
                 ELSE NextMatch(pattern.id, text, start + 1)
        n     == IF MatchesEmpty(pattern.id) THEN SpaceRun(text, start + 1)
                 ELSE IF i = 0 THEN 0
                 ELSE MatchTokens(pattern.id, text, i)
    IN  IF i = 0
           THEN [match   |-> [found |-> FALSE],
                 pattern |-> IF global(pattern)
                                THEN [pattern EXCEPT !.lastIndex = 0]
                                ELSE pattern]
           ELSE [match   |-> [found |-> TRUE, tok |-> i, ntok |-> n],
                 pattern |-> IF global(pattern)
                                THEN [pattern EXCEPT !.lastIndex = i - 1 + n]
                                ELSE pattern]

\* the patterns of the rules a RuleEngine can hold: those of the default
\* rules, and those addRule is given (/\.then\(/g, /\.then\(/ and /\s*/g)
RuleLoopPatterns ==
    {Regex("no-console-log"), Regex("no-debugger"), Regex(BlankLines),
     Regex("then-call"), RegexWithFlags("then-call", ""),
     RegexWithFlags("optional-space", "g")}

\* the patterns of the detectors of getHeuristicPatterns that find
\* something in the fragments
MLLoopPatterns ==
    {Regex("promise-chain-missing-catch"), Regex("setinterval-no-clear")}

LoopTexts == TextsOver({NL, THENS, SETI})

MaxIterations == 6

LoopInit ==
    /\ scanOwner \in {"RuleEngine", "MLAnalyzer"}
    /\ scanPattern \in (IF scanOwner = "RuleEngine" THEN RuleLoopPatterns
                                                   ELSE MLLoopPatterns)
    /\ scanContent \in LoopTexts
    /\ iterations = 0
    /\ scanStage = "idle"
    /\ content = <<>>
    /\ RuleEngineUnused
    /\ MLAnalyzerUnused
    /\ SummaryUnused
    /\ ScanUnused
    /\ PositionUnused
    /\ RescanUnused
    /\ ConfigUnused
    /\ FixUnused
    /\ FormatUnused
    /\ LineFixUnused
    /\ SharedUnused
    /\ AliasUnused
    /\ ConstructUnused
    /\ FixerUnused

\* applyRule and findPatternMatches up to their while loop: the reset of
\* the cursor
BeginScan ==
    /\ scanStage = "idle"
    /\ scanPattern' = ResetLastIndex(scanPattern)
    /\ scanStage' = "loop"
    /\ UNCHANGED <<scanOwner, scanContent, iterations>>
    /\ UNCHANGED <<ruleVars, mlVars, summaryVars, scanVars, posVars,
                   rescanVars, configVars, fixVars, formatVars,
                   lineFixVars,
                   sharedVars,
                   aliasVars,
                   constructVars,
                   fixerVars>>

\* one evaluation of the condition of the while loop, and the body when the
\* condition holds
Iterate ==
    /\ scanStage = "loop"
    /\ iterations < MaxIterations
    /\ LET r == exec(scanPattern, scanContent)
       IN  /\ scanPattern' = r.pattern
           /\ IF r.match.found
                 THEN /\ iterations' = iterations + 1
                      /\ scanStage' = "loop"
                 ELSE /\ iterations' = iterations
                      /\ scanStage' = "done"
    /\ UNCHANGED <<scanOwner, scanContent>>
    /\ UNCHANGED <<ruleVars, mlVars, summaryVars, scanVars, posVars,
                   rescanVars, configVars, fixVars, formatVars,
                   lineFixVars,
                   sharedVars,
                   aliasVars,
                   constructVars,
                   fixerVars>>

LoopNext == BeginScan \/ Iterate

SpecLoop == LoopInit /\ [][LoopNext]_vars

-----------------------------------------------------------------------------
(* Claims about the scan loops *)

\* C23: the scan loops of RuleEngine.analyze and MLAnalyzer.analyze end on
\* every text for every pattern a rule set can hold, a pattern without the
\* g flag or one matching the empty string included: every iteration of a
\* loop leaves the cursor further on than it found it, and a loop runs its
\* body no more often than the text has places for a match to start.
C23_ScanLoopsAdvanceAndEnd ==
    /\ [][(scanStage = "loop" /\ scanStage' = "loop") =>
              scanPattern'.lastIndex > scanPattern.lastIndex]_vars
    /\ [](iterations <= Len(scanContent) + 1)

-----------------------------------------------------------------------------
(* processFile: the fixes of one file, applied one after the other *)

\* a rule whose pattern matches within one line finds the line: /[ \t]+$/gm
\* the blanks at its end, /^[ \t]*\t[ \t]*[^ \t]/gm the tab in the white space
\* at its start
LineMatches(ruleName, line) ==
    /\ line # <<>>
    /\ CASE ruleName = "no-trailing-spaces"       -> line[Len(line)] \in {TRAILA, TRAILB}
         [] ruleName = "no-mixed-spaces-and-tabs" -> Head(line) = TABBED
         [] OTHER                                 -> FALSE

RECURSIVE lineRuleLoop(_, _, _, _)
\* applyRule for such a rule: one violation for every line it matches on,
\* from line k on
lineRuleLoop(ruleName, lines, filePath, k) ==
    IF k > Len(lines) THEN <<>>
    ELSE (IF LineMatches(ruleName, lines[k])
             THEN << [type |-> "rule", file |-> filePath, line |-> k,
                      rule |-> ruleName] >>
             ELSE <<>>)
         \o lineRuleLoop(ruleName, lines, filePath, k + 1)

\* the fixable findings of a file in the order analyze returns them: the
\* order of the rules in defaultRules
fixableFindings(text, filePath) ==
    ruleLoop(defaultRules.val[BlankLines], BlankLines, text, filePath, 1)
    \o lineRuleLoop("no-trailing-spaces", Split(text), filePath, 1)
    \o lineRuleLoop("no-mixed-spaces-and-tabs", Split(text), filePath, 1)

MaxFixLen == 6

\* files of empty lines and of lines to fix: a line is one fragment, and no
\* line of text comes twice
LineFixTexts ==
    {t \in UNION {[1..n -> {NL, TRAILA, TRAILB, TABBED}] : n \in 0..MaxFixLen} :
        /\ \A i, j \in 1..Len(t) : (i # j /\ t[i] = t[j]) => t[i] = NL
        /\ \A i \in 1..Len(t) - 1 : t[i] = NL \/ t[i + 1] = NL}

\* processFile called for a file as it was analysed
LineFixInit ==
    /\ content \in LineFixTexts
    /\ results = fixableFindings(content, FilePath)
    /\ modified = content
    /\ nFixed = 0
    /\ fixIndex = 0
    /\ summary = NoSummary
    /\ groups = NoGroups
    /\ RuleEngineUnused
    /\ MLAnalyzerUnused
    /\ ScanUnused
    /\ PositionUnused
    /\ RescanUnused
    /\ ConfigUnused
    /\ FixUnused
    /\ FormatUnused
    /\ LoopUnused
    /\ SharedUnused
    /\ AliasUnused
    /\ ConstructUnused
    /\ FixerUnused

\* processFile: one round of the loop over fileResults
ApplyNextFix ==
    /\ fixStage = "none"
    /\ fixIndex < Len(results)
    /\ fixIndex' = fixIndex + 1
    /\ LET result    == results[fixIndex + 1]
           fixResult == applyFix(result, modified)
       IN  IF isFixable(result.rule) /\ fixResult.fixed
              THEN /\ modified' = fixResult.content
                   /\ nFixed' = nFixed + 1
              ELSE UNCHANGED <<modified, nFixed>>
    /\ UNCHANGED <<dryRun, backup, configExists, fixStage, processed, written>>
    /\ UNCHANGED <<ruleVars, mlVars, summaryVars, scanVars, posVars,
                   rescanVars, configVars, formatVars, loopVars,
                   sharedVars,
                   aliasVars,
                   constructVars,
                   fixerVars>>

\* processFile after the loop, neither a dry run nor with a backup: the
\* file is written when a fix was applied
WriteModified ==
    /\ fixStage = "none"
    /\ fixIndex = Len(results)
    /\ fixStage' = "done"
    /\ written' = IF nFixed > 0
                     THEN Append(written, [path |-> FilePath, text |-> modified])
                     ELSE written
    /\ UNCHANGED <<dryRun, backup, configExists, processed>>
    /\ UNCHANGED <<ruleVars, mlVars, summaryVars, scanVars, posVars,
                   rescanVars, configVars, formatVars, loopVars, lineFixVars,
                   sharedVars,
                   aliasVars,
                   constructVars,
                   fixerVars>>

LineFixNext == ApplyNextFix \/ WriteModified

SpecLineFix == LineFixInit /\ [][LineFixNext]_vars

-----------------------------------------------------------------------------
(* Claims about the fixes of one file *)

\* the rules whose fixer rewrites the line of the finding
LineTargeted == {"no-trailing-spaces", "no-mixed-spaces-and-tabs"}

\* C24: when processFile applies the fixes of a file one after the other,
\* the fix of a no-trailing-spaces or no-mixed-spaces-and-tabs finding
\* changes no line but the one the finding was reported on in the content
\* as analysed, also after an earlier fix has changed the content.
C24_LineFixRewritesReportedLine ==
    [][(fixIndex' = fixIndex + 1 /\ results[fixIndex'].rule \in LineTargeted) =>
          LET before == Split(modified)
              after  == Split(modified')
          IN  /\ Len(after) = Len(before)
              /\ \A j \in 1..Len(before) :
                    after[j] # before[j] =>
                        before[j] = Split(content)[results[fixIndex'].line]]_vars

-----------------------------------------------------------------------------
(* Two analyze calls on one engine. analyze is an async function: its body *)
(* runs when it is called, up to its first await, and the heuristic path   *)
(* of both engines has none                                                *)

Tasks == {1, 2}

\* a body that gives way to other calls between any two of its steps
ScheduledAnyTime(task, current) == TRUE

\* the body of call task may run a step when the body of no other call is
\* being run: a body without await is run from its start to its return
Scheduled(task, current) == current \in {0, task}

\* the patterns of two rules the rule engine holds, and of two detectors of
\* the heuristic model
SharedPatternLists ==
    {<<Regex("no-console-log"), Regex("then-call")>>,
     <<Regex("promise-chain-missing-catch"), Regex("setinterval-no-clear")>>}

SharedTexts == {t \in TextsOver({CLOG, THENS, SETI}) : Len(t) <= 2}

MaxFound == 6

RECURSIVE execLoop(_, _)
\* the matches of the while loop over pattern.exec(content), from the
\* pattern's cursor on
execLoop(pattern, text) ==
    LET r == exec(pattern, text)
    IN  IF r.match.found
           THEN <<[id |-> pattern.id, tok |-> r.match.tok]>> \o execLoop(r.pattern, text)
           ELSE <<>>

RECURSIVE analyzeAlone(_, _, _)
\* what one analyze call finds in a text when no other call is made: the
\* matches of each pattern from the k-th on, its cursor reset
analyzeAlone(patterns, text, k) ==
    IF k > Len(patterns) THEN <<>>
    ELSE execLoop(ResetLastIndex(patterns[k]), text)
         \o analyzeAlone(patterns, text, k + 1)

SharedInit ==
    /\ sharedPatterns \in SharedPatternLists
    /\ callText \in [Tasks -> SharedTexts]
    /\ callStage = [t \in Tasks |-> "new"]
    /\ callAt = [t \in Tasks |-> 0]
    /\ callFound = [t \in Tasks |-> <<>>]
    /\ running = 0
    /\ content = <<>>
    /\ RuleEngineUnused
    /\ MLAnalyzerUnused
    /\ SummaryUnused
    /\ ScanUnused
    /\ PositionUnused
    /\ RescanUnused
    /\ ConfigUnused
    /\ FixUnused
    /\ FormatUnused
    /\ LoopUnused
    /\ LineFixUnused
    /\ AliasUnused
    /\ ConstructUnused
    /\ FixerUnused

\* engine.analyze(ast, content, filePath) is called: its body starts
CallAnalyze(task) ==
    /\ callStage[task] = "new"
    /\ Scheduled(task, running)
    /\ running' = task
    /\ callStage' = [callStage EXCEPT ![task] = "reset"]
    /\ callAt' = [callAt EXCEPT ![task] = 1]
    /\ UNCHANGED <<sharedPatterns, callText, callFound>>
    /\ UNCHANGED <<ruleVars, mlVars, summaryVars, scanVars, posVars,
                   rescanVars, configVars, fixVars, formatVars, loopVars,
                   lineFixVars,
                   aliasVars,
                   constructVars,
                   fixerVars>>

\* applyRule / findPatternMatches entered for the pattern the call is at:
\* pattern.lastIndex = 0
ResetCursor(task) ==
    /\ callStage[task] = "reset"
    /\ Scheduled(task, running)
    /\ sharedPatterns' = [sharedPatterns EXCEPT
                             ![callAt[task]] = ResetLastIndex(@)]
    /\ callStage' = [callStage EXCEPT ![task] = "loop"]
    /\ running' = task
    /\ UNCHANGED <<callText, callAt, callFound>>
    /\ UNCHANGED <<ruleVars, mlVars, summaryVars, scanVars, posVars,
                   rescanVars, configVars, fixVars, formatVars, loopVars,
                   lineFixVars,
                   aliasVars,
                   constructVars,
                   fixerVars>>

\* one evaluation of the while condition and, on a match, the loop body; on
\* null the call goes on to its next pattern or returns
ExecStep(task) ==
    /\ callStage[task] = "loop"
    /\ Scheduled(task, running)
    /\ Len(callFound[task]) < MaxFound
    /\ LET r == exec(sharedPatterns[callAt[task]], callText[task])
       IN  /\ sharedPatterns' = [sharedPatterns EXCEPT ![callAt[task]] = r.pattern]
           /\ IF r.match.found
                 THEN /\ callFound' = [callFound EXCEPT ![task] =
                             Append(@, [id  |-> sharedPatterns[callAt[task]].id,
                                        tok |-> r.match.tok])]
                      /\ running' = task
                      /\ UNCHANGED <<callStage, callAt>>
                 ELSE /\ UNCHANGED callFound
                      /\ IF callAt[task] < Len(sharedPatterns)
                            THEN /\ callAt' = [callAt EXCEPT ![task] = @ + 1]
                                 /\ callStage' = [callStage EXCEPT ![task] = "reset"]
                                 /\ running' = task
                            ELSE /\ callStage' = [callStage EXCEPT ![task] = "returned"]
                                 /\ running' = 0
                                 /\ UNCHANGED callAt
    /\ UNCHANGED callText
    /\ UNCHANGED <<ruleVars, mlVars, summaryVars, scanVars, posVars,
                   rescanVars, configVars, fixVars, formatVars, loopVars,
                   lineFixVars,
                   aliasVars,
                   constructVars,
                   fixerVars>>

\* the caller awaits the promise of a call, both calls having been made
AwaitAnalyze(task) ==
    /\ callStage[task] = "returned"
    /\ \A t \in Tasks : callStage[t] \in {"returned", "awaited"}
    /\ callStage' = [callStage EXCEPT ![task] = "awaited"]
    /\ UNCHANGED <<sharedPatterns, callText, callAt, callFound, running>>
    /\ UNCHANGED <<ruleVars, mlVars, summaryVars, scanVars, posVars,
                   rescanVars, configVars, fixVars, formatVars, loopVars,
                   lineFixVars,
                   aliasVars,
                   constructVars,
                   fixerVars>>

SharedNext ==
    \E task \in Tasks :
        \/ CallAnalyze(task)
        \/ ResetCursor(task)
        \/ ExecStep(task)
        \/ AwaitAnalyze(task)

SpecShared == SharedInit /\ [][SharedNext]_vars

-----------------------------------------------------------------------------
(* Claims about calls on a shared engine *)

\* seq is the start of whole
IsPrefix(seq, whole) ==
    /\ Len(seq) <= Len(whole)
    /\ SubSeq(whole, 1, Len(seq)) = seq

\* C25: of two analyze calls on one engine, made before either is awaited
\* and given any two texts, each returns just the findings it returns when
\* it is the only call: at every moment what a call has found is the start
\* of what it finds alone, and what is awaited is all of it.
C25_SharedCallsDoNotInterfere ==
    \A t \in DOMAIN callStage :
        /\ IsPrefix(callFound[t], analyzeAlone(sharedPatterns, callText[t], 1))
        /\ callStage[t] = "awaited" =>
              callFound[t] = analyzeAlone(sharedPatterns, callText[t], 1)

\* C25 witness: both calls have been awaited; the first was given
\* ".then(f)" twice and found both, the second a console.log call before a
\* ".then(f)" and found the two of them.
C25_Witness ==
    /\ sharedPatterns[1].id = "no-console-log"
    /\ callStage = [t \in Tasks |-> "awaited"]
    /\ callText[1] = <<THENS, THENS>>
    /\ callText[2] = <<CLOG, THENS>>
    /\ callFound[1] = <<[id |-> "then-call", tok |-> 1], [id |-> "then-call", tok |-> 2]>>
    /\ callFound[2] = <<[id |-> "no-console-log", tok |-> 1], [id |-> "then-call", tok |-> 2]>>

-----------------------------------------------------------------------------
(* Two rule engines constructed from the same configuration mapping. A     *)
(* rule object is a place in the heap; an engine's rules give, for each    *)
(* name, the place of its rule object                                      *)

Engines == {"A", "B"}

\* the rule objects of the mapping given to the constructors, and those an
\* engine makes itself (the literals of initializeRules and of addRule)
Places ==
    {<<owner, n>> : owner \in {"given"} \cup Engines,
                    n \in Range(defaultRules.keys) \cup RuleNames}

Free == [free |-> TRUE]

\* an object whose values are the places of the objects of obj, made by
\* owner
PlacesOf(owner, obj) ==
    [keys |-> obj.keys, val |-> [n \in Range(obj.keys) |-> <<owner, n>>]]

\* the engine's rules with the rule objects themselves for values
Deref(h, refs) ==
    [keys |-> refs.keys, val |-> [n \in Range(refs.keys) |-> h[refs.val[n]]]]

\* the constructor for engine e: initializeRules makes its default rule
\* objects anew and copies the mapping's properties, the places of the
\* given rule objects, over them
ConstructedRules(e, custom) ==
    Spread(PlacesOf(e, defaultRules), PlacesOf("given", custom))

AliasInit ==
    /\ customRules \in RuleConfigs
    /\ content \in ConfigTexts
    /\ heap = [p \in Places |->
                  IF p[1] = "given"
                     THEN IF p[2] \in Range(customRules.keys)
                             THEN customRules.val[p[2]] ELSE Free
                     ELSE IF p[2] \in Range(defaultRules.keys)
                             THEN defaultRules.val[p[2]] ELSE Free]
    /\ engineRules = [e \in Engines |-> ConstructedRules(e, customRules)]
    /\ engineEnabled = [e \in Engines |->
                           getEnabledRules(initializeRules(customRules))]
    /\ lastCall = [op |-> "none"]
    /\ rules = initializeRules(EmptyObj)
    /\ enabledRules = getEnabledRules(rules)
    /\ analyzed = FALSE
    /\ ruleRet = NoReturn
    /\ MLAnalyzerUnused
    /\ SummaryUnused
    /\ ScanUnused
    /\ PositionUnused
    /\ RescanUnused
    /\ ConfigUnused
    /\ FixUnused
    /\ FormatUnused
    /\ LoopUnused
    /\ LineFixUnused
    /\ SharedUnused
    /\ ConstructUnused
    /\ FixerUnused

\* A.setRuleEnabled(ruleName, flag): the assignment goes to the rule object
\* that this.rules[ruleName] is
AliasSetRuleEnabled ==
    \E ruleName \in RuleNames, flag \in BOOLEAN :
        LET after == setRuleEnabled(Deref(heap, engineRules["A"]),
                                    engineEnabled["A"], ruleName, flag)
        IN  /\ heap' = IF ruleName \in Range(engineRules["A"].keys)
                          THEN [heap EXCEPT ![engineRules["A"].val[ruleName]] =
                                                after.rules.val[ruleName]]
                          ELSE heap
            /\ engineEnabled' = [engineEnabled EXCEPT !["A"] = after.enabledRules]
            /\ lastCall' = [op |-> "setRuleEnabled", ruleName |-> ruleName]
            /\ UNCHANGED engineRules
            /\ UNCHANGED <<ruleVars, mlVars, summaryVars, scanVars, posVars,
                           rescanVars, configVars, fixVars, formatVars,
                           loopVars, lineFixVars, sharedVars,
                           constructVars,
                           fixerVars>>

\* A.addRule(ruleName, ruleConfig): this.rules[ruleName] becomes a new
\* object of the engine's own
AliasAddRule ==
    \E ruleName \in {"no-then"}, ruleConfig \in AddRuleConfigs :
        LET after == addRule(Deref(heap, engineRules["A"]),
                             engineEnabled["A"], ruleName, ruleConfig)
        IN  /\ heap' = [heap EXCEPT ![<<"A", ruleName>>] = after.rules.val[ruleName]]
            /\ engineRules' = [engineRules EXCEPT !["A"] =
                                  SetKey(@, ruleName, <<"A", ruleName>>)]
            /\ engineEnabled' = [engineEnabled EXCEPT !["A"] = after.enabledRules]
            /\ lastCall' = [op |-> "addRule", ruleName |-> ruleName]
            /\ UNCHANGED <<ruleVars, mlVars, summaryVars, scanVars, posVars,
                           rescanVars, configVars, fixVars, formatVars,
                           loopVars, lineFixVars, sharedVars,
                           constructVars,
                           fixerVars>>

AliasNext == AliasSetRuleEnabled \/ AliasAddRule

SpecAlias == AliasInit /\ [][AliasNext]_vars

-----------------------------------------------------------------------------
(* Claims about engines of one mapping *)

\* C26: setRuleEnabled and addRule on engine A change only A: the rule
\* objects of the mapping given to the constructors stay as given; engine B,
\* constructed from the same mapping, keeps its rules, its active rules and
\* its findings; and setRuleEnabled with a name A has no rule for changes
\* nothing.
C26_OnlyThatEngineChanges ==
    /\ [](engineRules # <<>> =>
            /\ \A n \in Range(customRules.keys) :
                  heap[<<"given", n>>] = customRules.val[n]
            /\ Deref(heap, engineRules["B"]) = initializeRules(customRules)
            /\ engineEnabled["B"] = getEnabledRules(initializeRules(customRules))
            /\ RuleEngineAnalyze(Deref(heap, engineRules["B"]), engineEnabled["B"],
                                 content, FilePath)
                  = RuleEngineAnalyze(initializeRules(customRules),
                                      getEnabledRules(initializeRules(customRules)),
                                      content, FilePath))
    /\ [][(/\ lastCall'.op = "setRuleEnabled"
           /\ lastCall'.ruleName \notin Range(engineRules["A"].keys))
            => UNCHANGED <<heap, engineRules, engineEnabled>>]_vars

-----------------------------------------------------------------------------
(* The MLAnalyzer constructor and the first analyze call. initializeModel  *)
(* is an async function: the constructor's call of it runs its body up to  *)
(* the first await, and what follows an await runs once the code that is   *)
(* running has returned                                                    *)

NullModel == [type |-> "null"]

\* this.initializeModel() with an await ahead of the assignment of the
\* model: the call returns with the model still null
startInitializeModelAwaiting(mdl) == [model |-> mdl, pending |-> TRUE]

\* this.initializeModel() as the constructor calls it, the model being mdl:
\* the body has no await, so the model is assigned when the call returns
startInitializeModel(mdl) == [model |-> initializeModel, pending |-> FALSE]

\* the model once the code that is running has returned: a pending part of
\* initializeModel has assigned it
settled(mdl, pending) == IF pending THEN initializeModel ELSE mdl

ConstructConfigs == MLConfigs \cup {[enabled |-> FALSE]}

ConstructInit ==
    /\ mlStage = "new"
    /\ modelPending = FALSE
    /\ sameTick = FALSE
    /\ content \in MLTexts
    /\ config = MLConfig(<<>>)
    /\ model = NullModel
    /\ mlAnalyzed = FALSE
    /\ mlRet = <<>>
    /\ RuleEngineUnused
    /\ SummaryUnused
    /\ ScanUnused
    /\ PositionUnused
    /\ RescanUnused
    /\ ConfigUnused
    /\ FixUnused
    /\ FormatUnused
    /\ LoopUnused
    /\ LineFixUnused
    /\ SharedUnused
    /\ AliasUnused
    /\ FixerUnused

\* new MLAnalyzer(given)
MLConstruct ==
    /\ mlStage = "new"
    /\ \E given \in ConstructConfigs :
          config' = MLConfig(given)
    /\ LET started == startInitializeModel(NullModel)
       IN  /\ model' = started.model
           /\ modelPending' = started.pending
    /\ mlStage' = "constructed"
    /\ UNCHANGED <<mlAnalyzed, mlRet, sameTick>>
    /\ UNCHANGED <<ruleVars, summaryVars, scanVars, posVars, rescanVars,
                   configVars, fixVars, formatVars, loopVars, lineFixVars,
                   sharedVars, aliasVars,
                   fixerVars>>

\* the first analyze call on the analyzer, made right after the constructor
\* (now) or after the caller has let pending code run
FirstAnalyze ==
    /\ mlStage = "constructed"
    /\ ~mlAnalyzed
    /\ \E now \in BOOLEAN :
          LET mdl == IF now THEN model ELSE settled(model, modelPending)
          IN  /\ sameTick' = now
              /\ mlRet' = MLAnalyzerAnalyze(config, mdl, content, FilePath)
              /\ model' = afterMLAnalyze(config, mdl)
              /\ modelPending' = (now /\ modelPending)
    /\ mlAnalyzed' = TRUE
    /\ UNCHANGED <<config, mlStage>>
    /\ UNCHANGED <<ruleVars, summaryVars, scanVars, posVars, rescanVars,
                   configVars, fixVars, formatVars, loopVars, lineFixVars,
                   sharedVars, aliasVars,
                   fixerVars>>

ConstructNext == MLConstruct \/ FirstAnalyze

SpecConstruct == ConstructInit /\ [][ConstructNext]_vars

-----------------------------------------------------------------------------
(* Claims about the construction of the heuristic engine *)

\* C27: when the MLAnalyzer constructor has returned the model is set,
\* though initializeModel was not awaited; the first analyze call on an
\* enabled analyzer returns what the heuristic patterns find, never an empty
\* list for want of a model.
C27_ModelSetWhenConstructed ==
    /\ mlStage = "constructed" => (model.type = "heuristic" /\ ~modelPending)
    /\ (mlStage = "constructed" /\ mlAnalyzed /\ config.enabled) =>
          mlRet = Slice0(analyzeWithHeuristics(config, initializeModel, content,
                                               FilePath),
                         config.maxWarningsPerFile)

\* C27 witness: the first analyze call came right after the constructor, on
\* an analyzer constructed without configuration, and reported the
\* setInterval call of the text.
C27_Witness ==
    /\ mlStage = "constructed"
    /\ modelPending = FALSE
    /\ sameTick
    /\ mlAnalyzed
    /\ config = MLConfig(<<>>)
    /\ content = <<SETI>>
    /\ Len(mlRet) = 1
    /\ mlRet[1].category = "memory-leak"

-----------------------------------------------------------------------------
(* Claims about the findings of one file *)

\* the finding is the one analyzeFile's catch makes
Synthetic(f) == f.rule = "file-parsing-error"

\* C28: what analyzeFile returns for a file is either the one synthetic
\* file-parsing-error finding and nothing else, or the findings of the rule
\* engine followed by those of the heuristic engine with no synthetic
\* finding among them; findings of rules that ran before a failure are not
\* returned.
C28_SyntheticFindingStandsAlone ==
    \A j \in 1..Len(perFile) :
        LET file == codeFiles[j]
            r    == perFile[j]
        IN  \/ r = <<ParsingError(file.path)>>
            \/ /\ \A k \in 1..Len(r) : ~Synthetic(r[k]) /\ r[k].type \in {"rule", "ml"}
               /\ \A k, m \in 1..Len(r) :
                     (r[k].type = "ml" /\ r[m].type = "rule") => m < k
               /\ SelectSeq(r, LAMBDA f : f.type = "rule")
                     = RuleEngineAnalyze(rules, enabledRules, file.text, file.path).value
               /\ SelectSeq(r, LAMBDA f : f.type = "ml")
                     = MLAnalyzerAnalyze(config, model, file.text, file.path)

\* C28 witness: with a custom rule whose pattern is a string, blank.js, in
\* which the built-in no-multiple-empty-lines rule has a match, came back
\* with the synthetic finding alone, and gone.js, which cannot be read, too.
C28_Witness ==
    /\ UnusableRules = {"no-then"}
    /\ Len(perFile) = 2
    /\ codeFiles[1] = File("blank.js", TRUE, <<NL, NL, NL>>)
    /\ codeFiles[2] = File("gone.js", FALSE, <<>>)
    /\ perFile[1] = <<ParsingError("blank.js")>>
    /\ perFile[2] = <<ParsingError("gone.js")>>

-----------------------------------------------------------------------------
(* Claims about the default threshold *)

\* what analyzeWithHeuristics pushes for the text
Emitted == analyzeWithHeuristics(config, model, content, FilePath)

\* C29: with the confidence threshold at its default of 0.7 the heuristic
\* engine emits a finding for a match exactly when the matched text is
\* longer than 20 characters and the line the match starts on holds no
\* disable comment; a match on a line with a disable comment is never
\* reported, whatever else raises its confidence; and with the other
\* defaults analyze returns what was emitted.
C29_DefaultThresholdLongUnmarked ==
    (mlAnalyzed /\ config.confidenceThreshold = 70) =>
        /\ \A occ \in Occurrences :
              (\E k \in 1..Len(Emitted) : Reports(Emitted[k], occ))
                  <=> (OccLong(occ) /\ ~OccMarked(occ))
        /\ \A k \in 1..Len(Emitted) : \E occ \in Occurrences : Reports(Emitted[k], occ)
        /\ \A k \in 1..Len(mlRet) : \A occ \in Occurrences :
              Reports(mlRet[k], occ) => ~OccMarked(occ)
        /\ (config.enabled /\ config.maxWarningsPerFile = 10) => mlRet = Emitted

\* C29 witness: under the default configuration the text is one line with a
\* long promise chain, a setInterval call (long, and raised by 0.1) and a
\* disable comment, and analyze returned nothing.
C29_Witness ==
    /\ mlAnalyzed
    /\ config = MLConfig(<<>>)
    /\ content = <<THENL, SETI, MARK>>
    /\ \E occ \in Occurrences : OccLong(occ) /\ OccSignal(occ) /\ OccMarked(occ)
    /\ mlRet = <<>>

-----------------------------------------------------------------------------
(* A CodeFixer: addFixableRule, removeFixableRule and applyFix *)

\* delete obj[key]
DeleteKey(obj, key) ==
    [keys |-> SelectSeq(obj.keys, LAMBDA k : k # key),
     val  |-> [k \in Range(obj.keys) \ {key} |-> obj.val[k]]]

\* the rules findings are handed in for: the three of the constructor, one a
\* caller registers, one nobody registers, and two that are names of
\* properties of Object.prototype
FixerRuleNames ==
    {"no-trailing-spaces", "no-multiple-empty-lines", "no-mixed-spaces-and-tabs",
     "no-tabs", "no-console-log", "toString", "__proto__"}

\* the fixers a caller registers
CustomFixers == {"throws", "claims", "text"}

FixerTexts == {<<>>, <<TRAILA>>, <<NL, NL, NL, TABBED>>, <<TABBED, NL, TRAILB>>}

\* new CodeFixer()
FixerInit ==
    /\ fixableRules = Range(ConstructorFixers.keys)
    /\ fixers = ConstructorFixers
    /\ fixCall = [op |-> "none"]
    /\ content = <<>>
    /\ RuleEngineUnused
    /\ MLAnalyzerUnused
    /\ SummaryUnused
    /\ ScanUnused
    /\ PositionUnused
    /\ RescanUnused
    /\ ConfigUnused
    /\ FixUnused
    /\ FormatUnused
    /\ LoopUnused
    /\ LineFixUnused
    /\ SharedUnused
    /\ AliasUnused
    /\ ConstructUnused

\* CodeFixer.addFixableRule
AddFixableRule ==
    /\ \E ruleName \in {"no-tabs", "no-trailing-spaces"}, fixer \in CustomFixers :
          /\ fixableRules' = fixableRules \cup {ruleName}
          /\ fixers' = SetKey(fixers, ruleName, fixer)
    /\ fixCall' = [op |-> "addFixableRule"]
    /\ UNCHANGED <<ruleVars, mlVars, summaryVars, scanVars, posVars,
                   rescanVars, configVars, fixVars, formatVars, loopVars,
                   lineFixVars, sharedVars, aliasVars, constructVars>>

\* CodeFixer.removeFixableRule
RemoveFixableRule ==
    /\ \E ruleName \in {"no-tabs", "no-trailing-spaces", "no-console-log"} :
          /\ fixableRules' = fixableRules \ {ruleName}
          /\ fixers' = DeleteKey(fixers, ruleName)
    /\ fixCall' = [op |-> "removeFixableRule"]
    /\ UNCHANGED <<ruleVars, mlVars, summaryVars, scanVars, posVars,
                   rescanVars, configVars, fixVars, formatVars, loopVars,
                   lineFixVars, sharedVars, aliasVars, constructVars>>

\* CodeFixer.applyFix(result, content)
ApplyFix ==
    /\ \E ruleName \in FixerRuleNames, line \in 1..MaxLine, text \in FixerTexts :
          LET result == [type |-> "rule", rule |-> ruleName, line |-> line]
          IN  fixCall' = [op      |-> "applyFix",
                          result  |-> result,
                          content |-> text,
                          ret     |-> applyFixWith(fixers, result, text)]
    /\ UNCHANGED <<fixableRules, fixers>>
    /\ UNCHANGED <<ruleVars, mlVars, summaryVars, scanVars, posVars,
                   rescanVars, configVars, fixVars, formatVars, loopVars,
                   lineFixVars, sharedVars, aliasVars, constructVars>>

FixerNext == AddFixableRule \/ RemoveFixableRule \/ ApplyFix

SpecFixer == FixerInit /\ [][FixerNext]_vars

-----------------------------------------------------------------------------
(* Claims about applyFix *)

\* the fixer the call's finding has, a fixer that throws included
Registered(ruleName) == ruleName \in Range(fixers.keys)

\* C30: applyFix returns fixed = true just when the content it returns
\* differs from the content it was given; for a finding whose rule has no
\* registered fixer, or whose fixer throws, it returns fixed = false and the
\* content as given; and so after any addFixableRule and removeFixableRule
\* calls.
C30_FixedIffContentChanged ==
    fixCall.op = "applyFix" =>
        /\ Has(fixCall.ret, "fixed")
        /\ Has(fixCall.ret, "content")
        /\ fixCall.ret.fixed <=> (fixCall.ret.content # fixCall.content)
        /\ (\/ ~Registered(fixCall.result.rule)
            \/ fixers.val[fixCall.result.rule] \in {"throws", "text"}) =>
              /\ fixCall.ret.fixed = FALSE
              /\ fixCall.ret.content = fixCall.content

====
